---- MODULE Spec2Model ----
(***************************************************************************)
(* MammoViewer: the conversion-job registry, the background pipeline       *)
(* (backend/app.py), the DICOM series checks (backend/dicom_processor.py)  *)
(* and the 3D Slicer orchestration (backend/slicer_converter.py).          *)
(*                                                                         *)
(* Threads: the request handlers submitting jobs, one request handler      *)
(* polling, one worker thread per submitted job.  A thread's position is   *)
(* its pc; an action is the code between two accesses to shared state      *)
(* (the registry, the job objects, the lock, the clock, the file system).  *)
(*                                                                         *)
(* Spec and SpecJobs share the actions.  Spec follows one job through      *)
(* every upload, tool installation and tool behaviour listed below.        *)
(* SpecJobs runs MaxJobs jobs concurrently on the uploads of JobsUploads   *)
(* with the tool behaviours of JobsToolOutcomes.  SpecSeries has no job:   *)
(* a caller uses a DICOMProcessor directly (discover, group, then validate *)
(* or sort) on every directory of SeriesUploads.                           *)
(*                                                                         *)
(* Strings are sequences of chunks (<<"Found ", "10", " DICOM files">>),   *)
(* so that formatting and concatenation are computed, not assumed.         *)
(* An Optional value is a sequence of length 0 (None) or 1.                *)
(***************************************************************************)
EXTENDS Integers, Sequences, FiniteSets, TLC

\* ------------------------------------------------------------------ bounds
\* Number of jobs submitted in one run of SpecJobs.
MaxJobs == 2
\* Last value of the clock (seconds).
MaxTime == 1
\* Largest number of files in a directory handed to a DICOMProcessor that
\* is used directly (SpecSeries).
MaxFiles == 3

\* ------------------------------------------------------- program constants
\* validate_series(series_uid, min_slices=10)
min_slices == 10
\* _run_slicer_script(script_path, timeout=600)
timeout == 600

JobIds == 1..MaxJobs

None == <<>>
Some(x) == <<x>>

VARIABLES
  now,          \* the clock read by time.time() and datetime.now()
  jobs,         \* keys of the registry dict `jobs` (each maps to its job object)
  obj,          \* the ConversionJob objects, by job id
  jobs_lock,    \* holder of jobs_lock
  pc,           \* position of job j's submit handler, then of its worker thread
  upd,          \* field writes of the job.update call in progress, still to do
  pre,          \* the job object as it was when that update call began
  w,            \* the worker's local variables (see Locals)
  cb_log,       \* percentages the converter handed to progress_callback
  upload_files, \* the files of the upload directory
  slicer_exists,\* whether config.SLICER_PATH exists
  tool,         \* the behaviours the external tool may show (see ToolOutcomes)
  scripts,      \* files of config.SLICER_SCRIPT_DIR: path -> content
  outputs,      \* files of config.OUTPUT_FOLDER: path -> size in bytes
  markers,      \* marker files: path -> text
  poll,         \* the polling request handler
  dp,           \* a DICOMProcessor used directly by a caller (see DpNew)
  req,          \* start_conversion, per request: what was asked and answered
  cb_raises     \* the percentages at which the callback given to convert raises

vars == <<now, jobs, obj, jobs_lock, pc, upd, pre, w, cb_log,
          upload_files, slicer_exists, tool, scripts, outputs, markers, poll, dp,
          req, cb_raises>>

\* ------------------------------------------------------------ file system
\* str(n)
Str(n) == ToString(n)

\* config.OUTPUT_FOLDER / f"{job_id}.stl"
OutputFile(j) == <<"outputs/", Str(j), ".stl">>

\* output_file.name
OutputName(j) == <<Str(j), ".stl">>

\* config.SLICER_SCRIPT_DIR / f"convert_{timestamp}.py"
ScriptPath(timestamp) == <<"slicer_scripts/", "convert_", Str(timestamp), ".py">>

\* str(path).replace('.py', '')
RemovePy(path) == SelectSeq(path, LAMBDA c : c # ".py")

\* Path(str(script_path).replace('.py', '') + '.error')
ErrorMarker(path) == RemovePy(path) \o <<".error">>

\* the generated script: error_file = r"{params['output_stl']}" + ".error"
ScriptErrorFile(content) == content.output_stl \o <<".error">>

\* Path(str(script_path).replace('.py', '') + '.success')
SuccessMarker(path) == RemovePy(path) \o <<".success">>

\* the generated script: marker_file = output_stl + ".success"
ScriptSuccessFile(content) == content.output_stl \o <<".success">>

Exists(fs, path) == path \in DOMAIN fs

WriteFile(fs, path, content) ==
  [p \in DOMAIN fs \cup {path} |-> IF p = path THEN content ELSE fs[p]]

\* ------------------------------------------------------------ DICOM files
NoTag == "NoTag"

\* A numeric tag of a file: not in the file (hasattr is false); in the file
\* with a value; in the file with a value int() or float() rejects (empty).
Absent == [has |-> FALSE, ok |-> FALSE, val |-> 0]
Value(v) == [has |-> TRUE, ok |-> TRUE, val |-> v]
Unusable == [has |-> TRUE, ok |-> FALSE, val |-> 0]

\* The descriptive entries of the metadata record; each is read from one
\* tag of the file (PatientID, StudyDate, Modality, SeriesDescription,
\* Manufacturer, ImageType, BodyPartExamined).
DescKeys ==
  {"patient_id", "study_date", "modality", "series_description", "manufacturer",
   "image_type", "body_part"}

\* A file with none of the descriptive tags; a file with text v in each.
NoDesc == [k \in DescKeys |-> NoTag]
Desc(v) == [k \in DescKeys |-> v]

\* A file of the directory: whether pydicom parses it, its
\* SeriesInstanceUID, whether a full read yields Rows and Columns and their
\* values, its InstanceNumber, SliceLocation and ImagePositionPatient[2],
\* its descriptive tags, and its PixelSpacing and SliceThickness.
File(path, dicom, series, rows, cols) ==
  [path |-> path, dicom |-> dicom, series |-> series,
   geom |-> TRUE, rows |-> rows, cols |-> cols,
   inst |-> Absent, loc |-> Absent, ipp |-> Absent,
   desc |-> NoDesc, spacing |-> Absent, thickness |-> Absent]

Uniform(n, series, rows, cols) ==
  [i \in 1..n |-> File(i, TRUE, series, rows, cols)]

\* The upload directories tried: no DICOM file at all; a series of exactly
\* min_slices uniform slices; one slice short; one slice of another size;
\* and two series, the first file found belonging to the smaller one.
Uploads ==
  { <<File(1, FALSE, NoTag, 0, 0)>>,
    Uniform(min_slices, "1.2.3", 256, 256),
    Uniform(min_slices - 1, "1.2.3", 256, 256),
    [Uniform(min_slices, "1.2.3", 256, 256) EXCEPT ![4].rows = 512, ![4].cols = 512],
    [Uniform(3, "1.2.3", 256, 256) EXCEPT ![1].series = "1.2.4"] }

\* DICOMProcessor.is_dicom_file
is_dicom_file(f) == f.dicom

\* DICOMProcessor.discover_dicom_files
discover_dicom_files(dir) == SelectSeq(dir, is_dicom_file)

\* getattr(dcm, 'SeriesInstanceUID', 'unknown')
SeriesOf(f) == IF f.series = NoTag THEN "unknown" ELSE f.series

\* organize_by_series that skips the files without a SeriesInstanceUID.
RECURSIVE organize_dropping(_)
organize_dropping(files) ==
  IF files = <<>> THEN [keys |-> <<>>, lists |-> <<>>]
  ELSE LET n    == Len(files)
           d    == organize_dropping(SubSeq(files, 1, n - 1))
           f    == files[n]
           uid  == SeriesOf(f)
           here == {i \in 1..Len(d.keys) : d.keys[i] = uid}
       IN IF f.series = NoTag THEN d
          ELSE IF here = {}
            THEN [keys |-> Append(d.keys, uid), lists |-> Append(d.lists, <<f>>)]
            ELSE LET i == CHOOSE i \in here : TRUE
                 IN [d EXCEPT !.lists[i] = Append(@, f)]

\* DICOMProcessor.organize_by_series: a dict in insertion order, as the
\* sequence of its keys and the list of each key.
RECURSIVE organize_by_series(_)
organize_by_series(files) ==
  IF files = <<>> THEN [keys |-> <<>>, lists |-> <<>>]
  ELSE LET n    == Len(files)
           d    == organize_by_series(SubSeq(files, 1, n - 1))
           f    == files[n]
           uid  == SeriesOf(f)
           here == {i \in 1..Len(d.keys) : d.keys[i] = uid}
       IN IF here = {}
            THEN [keys |-> Append(d.keys, uid), lists |-> Append(d.lists, <<f>>)]
            ELSE LET i == CHOOSE i \in here : TRUE
                 IN [d EXCEPT !.lists[i] = Append(@, f)]

SeriesFiles(d, uid) ==
  LET i == CHOOSE i \in 1..Len(d.keys) : d.keys[i] = uid IN d.lists[i]

HasSeries(d, uid) == \E i \in 1..Len(d.keys) : d.keys[i] = uid

\* Stops with the loop ending one member early.
StopsSkipLast(files) ==
  {i \in 1..(Len(files) - 1) :
     \/ ~files[i].geom
     \/ i > 1 /\ (files[i].rows # files[1].rows \/ files[i].cols # files[1].cols)}

\* validate_series, the loop over the files: the members at which the loop
\* stops, because the read or the access to Rows and Columns raises or
\* because the dimensions differ from the first member's.
Stops(files) ==
  {i \in 1..Len(files) :
     \/ ~files[i].geom
     \/ i > 1 /\ (files[i].rows # files[1].rows \/ files[i].cols # files[1].cols)}

\* validate_series that also rejects a series of exactly min slices.
validate_series_le(d, uid, min) ==
  IF ~HasSeries(d, uid) THEN <<FALSE, <<"Series not found">>>>
  ELSE LET files == SeriesFiles(d, uid)
       IN IF Len(files) <= min
            THEN <<FALSE, <<"Insufficient slices: ", Str(Len(files)), " < ", Str(min)>>>>
          ELSE IF Stops(files) = {} THEN <<TRUE, <<"Valid series">>>>
          ELSE LET i == CHOOSE i \in Stops(files) : \A k \in Stops(files) : i <= k
               IN IF ~files[i].geom
                    THEN <<FALSE, <<"Validation error: ", "no attribute 'Rows'">>>>
                    ELSE <<FALSE, <<"Inconsistent image dimensions">>>>

\* DICOMProcessor.validate_series: the tuple (is_valid, error_message)
validate_series(d, uid, min) ==
  IF ~HasSeries(d, uid) THEN <<FALSE, <<"Series not found">>>>
  ELSE LET files == SeriesFiles(d, uid)
       IN IF Len(files) < min
            THEN <<FALSE, <<"Insufficient slices: ", Str(Len(files)), " < ", Str(min)>>>>
          ELSE IF Stops(files) = {} THEN <<TRUE, <<"Valid series">>>>
          ELSE LET i == CHOOSE i \in Stops(files) : \A k \in Stops(files) : i <= k
               IN IF ~files[i].geom
                    THEN <<FALSE, <<"Validation error: ", "no attribute 'Rows'">>>>
                    ELSE <<FALSE, <<"Inconsistent image dimensions">>>>

\* _sort_dicom_files, the key of one file: int(dcm.InstanceNumber) if the
\* file has the attribute, else float(dcm.SliceLocation) if it has that,
\* else float(dcm.ImagePositionPatient[2]) if it has that, else 0; a
\* conversion that raises lands in the except clause, which gives key 0.
sort_key(f) ==
  IF f.inst.has THEN (IF f.inst.ok THEN f.inst.val ELSE 0)
  ELSE IF f.loc.has THEN (IF f.loc.ok THEN f.loc.val ELSE 0)
  ELSE IF f.ipp.has THEN (IF f.ipp.ok THEN f.ipp.val ELSE 0)
  ELSE 0

\* InsertSorted that places x before the entries of equal key.
InsertBeforeEqual(sorted, x) ==
  LET n == Cardinality({i \in 1..Len(sorted) : sorted[i].key < x.key})
  IN SubSeq(sorted, 1, n) \o <<x>> \o SubSeq(sorted, n + 1, Len(sorted))

\* list.sort(key=...) is stable: an entry goes after the entries already
\* placed whose key is not greater.
InsertSorted(sorted, x) ==
  LET n == Cardinality({i \in 1..Len(sorted) : sorted[i].key <= x.key})
  IN SubSeq(sorted, 1, n) \o <<x>> \o SubSeq(sorted, n + 1, Len(sorted))

\* file_info.sort(key=lambda x: x[0])
RECURSIVE SortByKey(_)
SortByKey(file_info) ==
  IF file_info = <<>> THEN <<>>
  ELSE InsertSorted(SortByKey(SubSeq(file_info, 1, Len(file_info) - 1)),
                    file_info[Len(file_info)])

\* DICOMProcessor._sort_dicom_files
sort_dicom_files(files) ==
  LET file_info == [i \in 1..Len(files) |-> [key |-> sort_key(files[i]), file |-> files[i]]]
      sorted    == SortByKey(file_info)
  IN [i \in 1..Len(sorted) |-> sorted[i].file]

\* The dict {}.
EmptyDict == [k \in {} |-> 0]

\* str(getattr(dcm, tag, 'Unknown'))
Descriptive(dcm, k) == IF dcm.desc[k] = NoTag THEN "Unknown" ELSE dcm.desc[k]

\* if hasattr(dcm, tag): metadata[key] = <the converted value>
Optional(tag, key, value) == IF tag.has THEN key :> value ELSE EmptyDict

\* DICOMProcessor.extract_metadata: the dict returned.  The conversions of
\* the three numeric tags are inside the one try block of the method, so a
\* tag that is present with a value float() rejects makes the method
\* return {}.
extract_metadata(processor, series_uid) ==
  LET files == IF series_uid # "" /\ HasSeries(processor.series_data, series_uid)
                 THEN SeriesFiles(processor.series_data, series_uid)
                 ELSE processor.dicom_files
  IN IF files = <<>> THEN EmptyDict
     ELSE LET dcm == files[1]
          IN IF \E tag \in {dcm.spacing, dcm.thickness, dcm.ipp} : tag.has /\ ~tag.ok
               THEN EmptyDict
               ELSE [k \in DescKeys |-> Descriptive(dcm, k)]
                    @@ ("number_of_slices" :> Len(files))
                    @@ Optional(dcm.spacing, "pixel_spacing",
                                <<dcm.spacing.val, dcm.spacing.val>>)
                    @@ Optional(dcm.thickness, "slice_thickness", dcm.thickness.val)
                    @@ Optional(dcm.ipp, "image_position", <<0, 0, dcm.ipp.val>>)

\* self.metadata after extract_metadata returned result: assigned only on
\* the path that returns the filled record.
MetadataAfter(processor, result) ==
  IF DOMAIN result = {} THEN processor.metadata ELSE result

\* Python's truth value of a tuple: any non-empty tuple is true.
TupleTruth(t) == Len(t) > 0


\* --------------------------------------------------------- ConversionJob
\* ConversionJob(job_id, upload_id, status='pending', progress=0, message)
\* with __post_init__ filling created_at and updated_at from the clock.
ConversionJob(job_id, upload_id, t) ==
  [job_id |-> job_id, upload_id |-> upload_id, status |-> "pending",
   progress |-> 0, message |-> <<"Job created, waiting to start...">>,
   stl_file |-> None, error |-> None, created_at |-> t, updated_at |-> t]

Supplied(args, k) == k \in DOMAIN args

Write(k, v) == <<[field |-> k, value |-> v]>>

\* update that forgets to assign stl_file.
updateNoStl(args) ==
     (IF Supplied(args, "status") /\ args.status # ""
        THEN Write("status", args.status) ELSE <<>>)
  \o (IF Supplied(args, "progress")
        THEN Write("progress", args.progress) ELSE <<>>)
  \o (IF Supplied(args, "message") /\ args.message # <<>>
        THEN Write("message", args.message) ELSE <<>>)
  \o (IF Supplied(args, "error") /\ args.error # <<>>
        THEN Write("error", args.error) ELSE <<>>)
  \o Write("updated_at", "now")

\* ConversionJob.update: the field assignments the call performs, in order.
\* args holds the keyword arguments supplied (an absent key is None).
update(args) ==
     (IF Supplied(args, "status") /\ args.status # ""
        THEN Write("status", args.status) ELSE <<>>)
  \o (IF Supplied(args, "progress")
        THEN Write("progress", args.progress) ELSE <<>>)
  \o (IF Supplied(args, "message") /\ args.message # <<>>
        THEN Write("message", args.message) ELSE <<>>)
  \o (IF Supplied(args, "stl_file") /\ args.stl_file # <<>>
        THEN Write("stl_file", args.stl_file) ELSE <<>>)
  \o (IF Supplied(args, "error") /\ args.error # <<>>
        THEN Write("error", args.error) ELSE <<>>)
  \o Write("updated_at", "now")

\* One assignment of update; t is datetime.now() at that moment.
Assign(o, wr, t) ==
  CASE wr.field = "status"     -> [o EXCEPT !.status = wr.value]
    [] wr.field = "progress"   -> [o EXCEPT !.progress = wr.value]
    [] wr.field = "message"    -> [o EXCEPT !.message = wr.value]
    [] wr.field = "stl_file"   -> [o EXCEPT !.stl_file = Some(wr.value)]
    [] wr.field = "error"      -> [o EXCEPT !.error = Some(wr.value)]
    [] wr.field = "updated_at" -> [o EXCEPT !.updated_at = t]

\* A whole update call performed without interruption.
RECURSIVE AssignAll(_, _, _)
AssignAll(o, ws, t) ==
  IF ws = <<>> THEN o ELSE AssignAll(Assign(o, Head(ws), t), Tail(ws), t)

\* ------------------------------------------------------------------ state
Free == [who |-> "free", job |-> 0]
Holder(who, j) == [who |-> who, job |-> j]

EmptyFs == [p \in {} |-> 0]

\* DICOMProcessor.__init__
DICOMProcessor ==
  [dicom_files |-> <<>>, series_data |-> [keys |-> <<>>, lists |-> <<>>],
   metadata |-> [k \in {} |-> 0]]

\* The local variables of process_conversion_job and of the calls it makes.
Locals ==
  [processor   |-> DICOMProcessor, \* processor
   series_uid  |-> "",             \* series_uid
   script_path |-> None,           \* convert_dicom_to_stl: script_path
   proc        |-> None,           \* _run_slicer_script: process, return_code, stdout
   run_result  |-> None,           \* convert_dicom_to_stl: success, message
   file_size   |-> None,           \* convert_dicom_to_stl: file_size
   conv_result |-> None,           \* process_conversion_job: success, message
   exc         |-> None]           \* process_conversion_job: str(e)

PollIdle == [pc |-> "idle", job |-> 0]

\* No DICOMProcessor is used outside the pipeline.
DpOff == [pc |-> "off", processor |-> DICOMProcessor, call |-> <<>>, ret |-> <<>>]

\* processor = DICOMProcessor(dicom_dir), as process_dicom_directory does.
DpNew == [pc |-> "new", processor |-> DICOMProcessor, call |-> <<>>, ret |-> <<>>]

\* What the tool leaves behind when it ends: its exit code, whether stdout
\* holds the token SUCCESS, the STL file (not written, or written with
\* some size) and whether the script wrote its error marker.
Outcome(returncode, success_token, out, err) ==
  [returncode |-> returncode, success_token |-> success_token, out |-> out, err |-> err]

\* Every behaviour of an opaque tool.
ToolOutcomes ==
  {Outcome(rc, tok, out, err) :
     rc \in {0, 1}, tok \in BOOLEAN, out \in {None, Some(0), Some(84)}, err \in BOOLEAN}

\* The script's two documented paths: success, and failure with the marker.
JobsToolOutcomes ==
  {Outcome(0, TRUE, Some(84), FALSE), Outcome(1, FALSE, None, TRUE)}

\* config.THRESHOLD_DEFAULT, THRESHOLD_MIN, THRESHOLD_MAX; DECIMATION_RATE in
\* hundredths.
THRESHOLD_DEFAULT == 100
THRESHOLD_MIN == 10
THRESHOLD_MAX == 1000
DECIMATION_RATE == 75

\* The JSON body of POST /api/convert: whether the upload directory named
\* by upload_id exists, and the fields threshold and decimation: absent, a
\* number (threshold in tenths, decimation in hundredths), or a value the
\* conversion rejects.
Request(upload_exists, threshold, decimation) ==
  [upload_exists |-> upload_exists, threshold |-> threshold, decimation |-> decimation]

\* int(x) of a non-negative JSON number given in tenths: truncation.
int(tenths) == tenths \div 10

\* threshold = int(data.get('threshold', config.THRESHOLD_DEFAULT))
ParsedThreshold(r) ==
  IF r.threshold.has THEN int(r.threshold.val) ELSE THRESHOLD_DEFAULT

\* decimation = float(data.get('decimation', config.DECIMATION_RATE))
ParsedDecimation(r) ==
  IF r.decimation.has THEN r.decimation.val ELSE DECIMATION_RATE

\* start_conversion up to the creation of the job: the status code it
\* answers with, 200 standing for going on to create the job.  int() or
\* float() raising is caught by the handler's except clause.
start_conversion(r) ==
  IF ~r.upload_exists THEN 404
  ELSE IF (r.threshold.has /\ ~r.threshold.ok) \/ (r.decimation.has /\ ~r.decimation.ok)
    THEN 500
  ELSE IF ~(THRESHOLD_MIN <= ParsedThreshold(r) /\ ParsedThreshold(r) <= THRESHOLD_MAX)
    THEN 400
  ELSE IF ~(0 <= ParsedDecimation(r) /\ ParsedDecimation(r) <= 100)
    THEN 400
  ELSE 200

\* No request handled yet.
NoRequest == [request |-> None, args |-> None, code |-> 0]

\* A request with an existing upload and no optional field.
DefaultRequest == Request(TRUE, Absent, Absent)

\* The requests tried: thresholds 9.9, 10, 1000, 1000.9 and 1001,
\* decimations -0.01, 0, 1 and 1.01, each field also absent or unparsable.
Requests ==
  {Request(e, t, d) :
     e \in BOOLEAN,
     t \in {Absent, Unusable, Value(99), Value(100), Value(10000), Value(10009),
            Value(10010)},
     d \in {Absent, Unusable, Value(-1), Value(0), Value(100), Value(101)}}

\* update_progress, the callback of process_conversion_job, never raises.
NeverRaises == {{}}

InitOf(J, U, S, T, C) ==
  /\ now = 0
  /\ jobs = {}
  /\ obj = EmptyFs
  /\ jobs_lock = Free
  /\ pc = [j \in J |-> "none"]
  /\ upd = [j \in J |-> <<>>]
  /\ pre = EmptyFs
  /\ w = [j \in J |-> Locals]
  /\ cb_log = [j \in J |-> <<>>]
  /\ upload_files \in U
  /\ slicer_exists \in S
  /\ tool = T
  /\ scripts = EmptyFs
  /\ outputs = EmptyFs
  /\ markers = EmptyFs
  /\ poll = PollIdle
  /\ dp = DpOff
  /\ req = [j \in J |-> NoRequest]
  /\ cb_raises \in C

Init == InitOf({1}, Uploads, BOOLEAN, ToolOutcomes, NeverRaises)

\* The uploads of SpecJobs: a well-formed series, and no DICOM file at all.
JobsUploads ==
  {Uniform(min_slices, "1.2.3", 256, 256), <<File(1, FALSE, NoTag, 0, 0)>>}

InitJobs == InitOf(JobIds, JobsUploads, BOOLEAN, JobsToolOutcomes, NeverRaises)

\* The directories of at most MaxFiles files, each file one of S.
Directories(S) ==
  UNION {{[i \in 1..n |-> [k[i] EXCEPT !.path = i]] : k \in [1..n -> S]} : n \in 0..MaxFiles}

\* Files differing in what grouping reads: parsed or not, and the series.
GroupingFiles ==
  {File(0, FALSE, NoTag, 0, 0), File(0, TRUE, "1.2.3", 256, 256),
   File(0, TRUE, "1.2.4", 256, 256), File(0, TRUE, NoTag, 256, 256)}

\* A file of series 1.2.3 with the given InstanceNumber, SliceLocation and
\* ImagePositionPatient[2].
Slice(inst, loc, ipp) ==
  [File(0, TRUE, "1.2.3", 256, 256) EXCEPT !.inst = inst, !.loc = loc, !.ipp = ipp]

\* Files of one series differing in what sorting reads: one file for each
\* way through the if/elif chain and its except clause.
SortFiles ==
  {Slice(Value(2), Value(1), Value(3)),
   Slice(Unusable, Value(1), Absent),
   Slice(Absent, Value(1), Value(3)),
   Slice(Absent, Unusable, Value(3)),
   Slice(Absent, Absent, Value(3)),
   Slice(Absent, Absent, Absent)}

\* Files of one series differing in what validation reads.
GeometryFiles ==
  {File(0, TRUE, "1.2.3", 256, 256), File(0, TRUE, "1.2.3", 512, 512),
   [File(0, TRUE, "1.2.3", 256, 256) EXCEPT !.geom = FALSE]}

\* Series around the default min_slices: one slice short, exactly enough,
\* and exactly enough with one slice of another size at each position.
DefaultSizeSeries ==
  {Uniform(min_slices - 1, "1.2.3", 256, 256), Uniform(min_slices, "1.2.3", 256, 256)}
  \cup {[Uniform(min_slices, "1.2.3", 256, 256) EXCEPT ![p].rows = 512, ![p].cols = 512] :
          p \in 1..min_slices}

\* A file of the given series with the given descriptive tags, PixelSpacing,
\* SliceThickness and ImagePositionPatient.
Meta(series, desc, numeric) ==
  [File(0, TRUE, series, 256, 256) EXCEPT !.desc = desc, !.spacing = numeric[1],
                                          !.thickness = numeric[2], !.ipp = numeric[3]]

\* The numeric tags tried on the first file: none, all well-formed, each
\* one malformed beside two well-formed ones, and only the first.
NumericCases ==
  {<<Absent, Absent, Absent>>, <<Value(1), Value(2), Value(3)>>,
   <<Unusable, Value(2), Value(3)>>, <<Value(1), Unusable, Value(3)>>,
   <<Value(1), Value(2), Unusable>>, <<Value(1), Absent, Absent>>}

\* The descriptive tags tried on the first file: all, none, one.
DescCases == {Desc("A"), NoDesc, [NoDesc EXCEPT !["modality"] = "MG"]}

FirstFiles == {Meta("1.2.3", d, n) : d \in DescCases, n \in NumericCases}

\* The files after the first: one of another series, one of the same
\* series; their tags differ from those of every first file.
OtherFiles ==
  {Meta("1.2.4", Desc("B"), <<Value(7), Value(8), Value(9)>>),
   Meta("1.2.3", Desc("C"), <<Unusable, Unusable, Unusable>>)}

\* Directories differing in what extract_metadata reads.
MetadataUploads ==
  {[i \in 1..(Len(rest) + 1) |->
      [(IF i = 1 THEN f ELSE rest[i - 1]) EXCEPT !.path = i]] :
     f \in FirstFiles,
     rest \in UNION {[1..n -> OtherFiles] : n \in 0..(MaxFiles - 1)}}

SeriesUploads ==
  Directories(GroupingFiles) \cup Directories(SortFiles)
    \cup Directories(GeometryFiles) \cup DefaultSizeSeries \cup MetadataUploads

\* A caller with a new DICOMProcessor on one of the directories; no job.
InitSeries ==
  /\ now = 0
  /\ jobs = {}
  /\ obj = EmptyFs
  /\ jobs_lock = Free
  /\ pc = <<>>
  /\ upd = <<>>
  /\ pre = EmptyFs
  /\ w = <<>>
  /\ cb_log = <<>>
  /\ upload_files \in SeriesUploads
  /\ slicer_exists = TRUE
  /\ tool = {}
  /\ scripts = EmptyFs
  /\ outputs = EmptyFs
  /\ markers = EmptyFs
  /\ poll = PollIdle
  /\ dp = DpNew
  /\ req = <<>>
  /\ cb_raises = {}

env == <<upload_files, slicer_exists, tool, dp, req, cb_raises>>
fs == <<scripts, outputs, markers>>

\* The clock advances.
Tick ==
  /\ now < MaxTime
  /\ now' = now + 1
  /\ UNCHANGED <<jobs, obj, jobs_lock, pc, upd, pre, w, cb_log, env, fs, poll>>

\* The tool's executable is installed or removed: self.slicer_path.exists()
\* reads the file system anew at each call.
SlicerChange ==
  /\ slicer_exists' = ~slicer_exists
  /\ UNCHANGED <<now, jobs, obj, jobs_lock, pc, upd, pre, w, cb_log,
                 upload_files, tool, dp, fs, poll, req, cb_raises>>

\* ------------------------------------------------------- start_conversion
\* The upload directory of the request: config.UPLOAD_FOLDER / upload_id
upload_id == <<"upload-1">>

\* The request passed the checks: job = ConversionJob(job_id=str(uuid.uuid4()),
\* ...) with a fresh id; threshold and decimation are kept for the thread.
Create(j, r) ==
  /\ pc[j] = "none"
  /\ start_conversion(r) = 200
  /\ obj' = WriteFile(obj, j, ConversionJob(j, upload_id, now))
  /\ pre' = WriteFile(pre, j, ConversionJob(j, upload_id, now))
  /\ pc' = [pc EXCEPT ![j] = "submit"]
  /\ req' = [req EXCEPT ![j] = [request |-> Some(r),
                                 args |-> Some([threshold |-> ParsedThreshold(r),
                                                decimation |-> ParsedDecimation(r)]),
                                 code |-> 0]]
  /\ UNCHANGED <<now, jobs, jobs_lock, upd, w, cb_log,
                 upload_files, slicer_exists, tool, dp, fs, poll, cb_raises>>

\* A client submits an upload that exists, with the default parameters.
SubmitCreate(j) == Create(j, DefaultRequest)

\* A client submits any request that passes the checks.
SubmitAccept(j) == \E r \in Requests : Create(j, r)

\* SubmitReject that lets a request it answers with an error create the job.
SubmitRejectCreating(j) ==
  /\ pc[j] = "none"
  /\ \E r \in Requests :
       /\ start_conversion(r) # 200
       /\ req' = [req EXCEPT ![j] = [request |-> Some(r), args |-> None,
                                      code |-> start_conversion(r)]]
  /\ obj' = WriteFile(obj, j, ConversionJob(j, upload_id, now))
  /\ pre' = WriteFile(pre, j, ConversionJob(j, upload_id, now))
  /\ pc' = [pc EXCEPT ![j] = "submit"]
  /\ UNCHANGED <<now, jobs, jobs_lock, upd, w, cb_log,
                 upload_files, slicer_exists, tool, dp, fs, poll, cb_raises>>

\* return jsonify({'error': ...}), 404 | 400 | 500: the handler returns
\* before a job is created.
SubmitReject(j) ==
  /\ pc[j] = "none"
  /\ \E r \in Requests :
       /\ start_conversion(r) # 200
       /\ req' = [req EXCEPT ![j] = [request |-> Some(r), args |-> None,
                                      code |-> start_conversion(r)]]
  /\ pc' = [pc EXCEPT ![j] = "rejected"]
  /\ UNCHANGED <<now, jobs, obj, jobs_lock, upd, pre, w, cb_log,
                 upload_files, slicer_exists, tool, dp, fs, poll, cb_raises>>

\* with jobs_lock:
SubmitAcquire(j) ==
  /\ pc[j] = "submit"
  /\ jobs_lock = Free
  /\ jobs_lock' = Holder("submit", j)
  /\ pc' = [pc EXCEPT ![j] = "submit_locked"]
  /\ UNCHANGED <<now, jobs, obj, upd, pre, w, cb_log, env, fs, poll>>

\* SubmitInsert that leaves the registry as it is.
SubmitInsertSkip(j) ==
  /\ pc[j] = "submit_locked"
  /\ jobs' = jobs
  /\ jobs_lock' = Free
  /\ pc' = [pc EXCEPT ![j] = "submit_start"]
  /\ UNCHANGED <<now, obj, upd, pre, w, cb_log, env, fs, poll>>

\* jobs[job_id] = job, and the lock is released
SubmitInsert(j) ==
  /\ pc[j] = "submit_locked"
  /\ jobs' = jobs \cup {j}
  /\ jobs_lock' = Free
  /\ pc' = [pc EXCEPT ![j] = "submit_start"]
  /\ UNCHANGED <<now, obj, upd, pre, w, cb_log, env, fs, poll>>

\* thread.start(); the handler then returns the job id without touching
\* shared state again.
SubmitStart(j) ==
  /\ pc[j] = "submit_start"
  /\ pc' = [pc EXCEPT ![j] = "w_start"]
  /\ req' = [req EXCEPT ![j].code = 200]
  /\ UNCHANGED <<now, jobs, obj, jobs_lock, upd, pre, w, cb_log,
                 upload_files, slicer_exists, tool, dp, fs, poll, cb_raises>>

\* ------------------------------------------------- process_conversion_job
\* The worker is at label p and no update call is in progress.
At(j, p) == pc[j] = p /\ upd[j] = <<>>

\* job.update(**args) begins; the worker continues at label next afterwards.
CallUpdate(j, args, next) ==
  /\ upd' = [upd EXCEPT ![j] = update(args)]
  /\ pre' = [pre EXCEPT ![j] = obj[j]]
  /\ pc' = [pc EXCEPT ![j] = next]

\* raise ValueError(msg): control passes to the except clause.
Raise(j, msg) ==
  /\ w' = [w EXCEPT ![j].exc = Some(msg)]
  /\ pc' = [pc EXCEPT ![j] = "except"]
  /\ UNCHANGED <<upd, pre>>

\* One field assignment of a job.update call made outside the lock.
UpdateStep(j) ==
  /\ upd[j] # <<>>
  /\ obj' = [obj EXCEPT ![j] = Assign(@, Head(upd[j]), now)]
  /\ upd' = [upd EXCEPT ![j] = Tail(@)]
  /\ UNCHANGED <<now, jobs, jobs_lock, pc, pre, w, cb_log, env, fs, poll>>

\* with jobs_lock:
WorkerAcquire(j) ==
  /\ pc[j] = "w_start"
  /\ jobs_lock = Free
  /\ jobs_lock' = Holder("worker", j)
  /\ pc' = [pc EXCEPT ![j] = "w_lookup"]
  /\ UNCHANGED <<now, jobs, obj, upd, pre, w, cb_log, env, fs, poll>>

\* WorkerLookup that keeps the registry lock for the rest of the run.
WorkerLookupHolding(j) ==
  /\ pc[j] = "w_lookup"
  /\ IF j \notin jobs
       THEN /\ pc' = [pc EXCEPT ![j] = "done"]
            /\ jobs_lock' = Free
            /\ UNCHANGED <<upd, pre>>
       ELSE /\ jobs_lock' = jobs_lock
            /\ CallUpdate(j, [status |-> "processing", progress |-> 5,
                              message |-> <<"Initializing...">>], "scan")
  /\ UNCHANGED <<now, jobs, obj, w, cb_log, env, fs, poll>>

\* WorkerLookup with the first update forgetting status='processing'.
WorkerLookupNoStatus(j) ==
  /\ pc[j] = "w_lookup"
  /\ jobs_lock' = Free
  /\ IF j \notin jobs
       THEN /\ pc' = [pc EXCEPT ![j] = "done"]
            /\ UNCHANGED <<upd, pre>>
       ELSE CallUpdate(j, [progress |-> 5, message |-> <<"Initializing...">>], "scan")
  /\ UNCHANGED <<now, jobs, obj, w, cb_log, env, fs, poll>>

\* if job_id not in jobs: return; job = jobs[job_id]; the lock is released;
\* job.update(status='processing', progress=5, message='Initializing...')
WorkerLookup(j) ==
  /\ pc[j] = "w_lookup"
  /\ jobs_lock' = Free
  /\ IF j \notin jobs
       THEN /\ pc' = [pc EXCEPT ![j] = "done"]
            /\ UNCHANGED <<upd, pre>>
       ELSE CallUpdate(j, [status |-> "processing", progress |-> 5,
                           message |-> <<"Initializing...">>], "scan")
  /\ UNCHANGED <<now, jobs, obj, w, cb_log, env, fs, poll>>

\* job.update(progress=10, message='Scanning DICOM files...')
Scan(j) ==
  /\ At(j, "scan")
  /\ CallUpdate(j, [progress |-> 10, message |-> <<"Scanning DICOM files...">>], "discover")
  /\ UNCHANGED <<now, jobs, obj, jobs_lock, w, cb_log, env, fs, poll>>

\* processor = DICOMProcessor(upload_dir); processor.discover_dicom_files();
\* if not processor.dicom_files: raise; job.update(progress=20, ...)
Discover(j) ==
  /\ At(j, "discover")
  /\ LET found == discover_dicom_files(upload_files)
     IN IF found = <<>>
          THEN Raise(j, <<"No DICOM files found in upload">>)
          ELSE /\ w' = [w EXCEPT ![j].processor.dicom_files = found]
               /\ CallUpdate(j, [progress |-> 20,
                                 message |-> <<"Found ", Str(Len(found)), " DICOM files">>],
                             "organize")
  /\ UNCHANGED <<now, jobs, obj, jobs_lock, cb_log, env, fs, poll>>

\* job.update(progress=30, message='Organizing DICOM series...')
Organize(j) ==
  /\ At(j, "organize")
  /\ CallUpdate(j, [progress |-> 30, message |-> <<"Organizing DICOM series...">>], "select")
  /\ UNCHANGED <<now, jobs, obj, jobs_lock, w, cb_log, env, fs, poll>>

\* series_dict = processor.organize_by_series(); if not series_dict: raise;
\* series_uid = list(series_dict.keys())[0]; metadata = extract_metadata(..)
\* (logged only); job.update(progress=40, message='Validating DICOM series...')
Select(j) ==
  /\ At(j, "select")
  /\ LET series_dict == organize_by_series(w[j].processor.dicom_files)
     IN IF series_dict.keys = <<>>
          THEN Raise(j, <<"No valid DICOM series found">>)
          ELSE LET processor == [w[j].processor EXCEPT !.series_data = series_dict]
                   series_uid == series_dict.keys[1]
                   metadata == extract_metadata(processor, series_uid)
               IN
               /\ w' = [w EXCEPT ![j].processor =
                                    [processor EXCEPT
                                       !.metadata = MetadataAfter(processor, metadata)],
                                 ![j].series_uid = series_uid]
               /\ CallUpdate(j, [progress |-> 40,
                                 message |-> <<"Validating DICOM series...">>], "validate")
  /\ UNCHANGED <<now, jobs, obj, jobs_lock, cb_log, env, fs, poll>>

\* Validate whose check consumes the group as it walks through it.
ValidateConsuming(j) ==
  /\ At(j, "validate")
  /\ IF ~TupleTruth(validate_series(w[j].processor.series_data, w[j].series_uid, min_slices))
       THEN Raise(j, <<"DICOM series validation failed">>)
       ELSE /\ CallUpdate(j, [progress |-> 50,
                              message |-> <<"Initializing 3D Slicer converter...">>],
                          "init_slicer")
            /\ w' = [w EXCEPT ![j].processor.series_data.lists[1] = <<Head(@)>>]
  /\ UNCHANGED <<now, jobs, obj, jobs_lock, cb_log, env, fs, poll>>

\* if not processor.validate_series(series_uid): raise;
\* job.update(progress=50, message='Initializing 3D Slicer converter...')
Validate(j) ==
  /\ At(j, "validate")
  /\ IF ~TupleTruth(validate_series(w[j].processor.series_data, w[j].series_uid, min_slices))
       THEN Raise(j, <<"DICOM series validation failed">>)
       ELSE /\ CallUpdate(j, [progress |-> 50,
                              message |-> <<"Initializing 3D Slicer converter...">>],
                          "init_slicer")
            /\ UNCHANGED w
  /\ UNCHANGED <<now, jobs, obj, jobs_lock, cb_log, env, fs, poll>>

\* SlicerConverter.validate_slicer
validate_slicer == slicer_exists

\* converter = SlicerConverter(); if not converter.validate_slicer(): raise;
\* job.update(progress=60, message='Converting to STL...')
InitSlicer(j) ==
  /\ At(j, "init_slicer")
  /\ IF ~validate_slicer
       THEN Raise(j, <<"3D Slicer not found at ", "SLICER_PATH", ". ",
                       "Please install 3D Slicer and set SLICER_PATH environment variable.">>)
       ELSE /\ CallUpdate(j, [progress |-> 60, message |-> <<"Converting to STL...">>],
                          "convert")
            /\ UNCHANGED w
  /\ UNCHANGED <<now, jobs, obj, jobs_lock, cb_log, env, fs, poll>>

\* ------------------------------------------ SlicerConverter.convert_dicom_to_stl
\* def update_progress(progress, message): job.update(progress=progress, message=message)
update_progress(j, progress, message, next) ==
  CallUpdate(j, [progress |-> progress, message |-> message], next)

\* if progress_callback: progress_callback(percent, message)
progress_callback(j, percent, message, next) ==
  /\ percent \notin cb_raises
  /\ cb_log' = [cb_log EXCEPT ![j] = Append(@, percent)]
  /\ update_progress(j, percent, message, next)

\* The params dict rendered into the script (the fields the script's file
\* effects depend on).
ScriptContent(j) == [dicom_dir |-> upload_id, output_stl |-> OutputFile(j)]

\* convert_dicom_to_stl returns (success, message) to process_conversion_job.
ConvertReturn(j, success, message) ==
  /\ w' = [w EXCEPT ![j].conv_result = Some(<<success, message>>)]
  /\ pc' = [pc EXCEPT ![j] = "converted"]
  /\ UNCHANGED <<upd, pre, cb_log>>

\* ConvertBegin that goes on to prepare the script without looking for the
\* executable.
ConvertBeginUnchecked(j) ==
  /\ At(j, "convert")
  /\ progress_callback(j, 10, <<"Preparing conversion script...">>, "c_script")
  /\ UNCHANGED w
  /\ UNCHANGED <<now, jobs, obj, jobs_lock, env, fs, poll>>

\* if not self.validate_slicer(): return False, ...
\* progress_callback(10, "Preparing conversion script...")
ConvertBegin(j) ==
  /\ At(j, "convert")
  /\ IF ~validate_slicer
       THEN ConvertReturn(j, FALSE, <<"3D Slicer not found at ", "SLICER_PATH">>)
       ELSE /\ progress_callback(j, 10, <<"Preparing conversion script...">>, "c_script")
            /\ UNCHANGED w
  /\ UNCHANGED <<now, jobs, obj, jobs_lock, env, fs, poll>>

\* _create_conversion_script: timestamp = int(time.time())
ScriptName(t) == ScriptPath(t)

\* script_path = self._create_conversion_script({...}): the file is written;
\* progress_callback(20, "Running 3D Slicer conversion...")
CreateScript(j) ==
  /\ At(j, "c_script")
  /\ LET path == ScriptName(now)
     IN /\ scripts' = WriteFile(scripts, path, ScriptContent(j))
        /\ w' = [w EXCEPT ![j].script_path = Some(path)]
  /\ progress_callback(j, 20, <<"Running 3D Slicer conversion...">>, "c_launch")
  /\ UNCHANGED <<now, jobs, obj, jobs_lock, env, outputs, markers, poll>>

\* The callback raises when invoked with percent: caught by
\* convert_dicom_to_stl's handler, which returns (False, "Conversion error: ...").
CallbackError(j, percent) ==
  /\ percent \in cb_raises
  /\ cb_log' = [cb_log EXCEPT ![j] = Append(@, percent)]
  /\ pc' = [pc EXCEPT ![j] = "converted"]
  /\ UNCHANGED <<upd, pre>>

CallbackFailure == Some(<<FALSE, <<"Conversion error: ", "callback failed">>>>)

\* The four places where convert_dicom_to_stl invokes the callback, for a
\* callback that raises there.
CallbackRaises(j) ==
  /\ \/ /\ At(j, "convert") /\ validate_slicer
        /\ CallbackError(j, 10)
        /\ w' = [w EXCEPT ![j].conv_result = CallbackFailure]
        /\ UNCHANGED scripts
     \/ /\ At(j, "c_script")
        /\ CallbackError(j, 20)
        /\ scripts' = WriteFile(scripts, ScriptPath(now), ScriptContent(j))
        /\ w' = [w EXCEPT ![j].script_path = Some(ScriptPath(now)),
                          ![j].conv_result = CallbackFailure]
     \/ /\ At(j, "c_ran") /\ w[j].run_result[1][1]
        /\ CallbackError(j, 90)
        /\ w' = [w EXCEPT ![j].conv_result = CallbackFailure]
        /\ UNCHANGED scripts
     \/ /\ At(j, "c_verify") /\ Exists(outputs, OutputFile(j))
        /\ CallbackError(j, 100)
        /\ w' = [w EXCEPT ![j].file_size = Some(outputs[OutputFile(j)]),
                          ![j].conv_result = CallbackFailure]
        /\ UNCHANGED scripts
  /\ UNCHANGED <<now, jobs, obj, jobs_lock, env, outputs, markers, poll>>

\* CreateScriptError whose exception leaves convert_dicom_to_stl.
CreateScriptRaises(j) ==
  /\ At(j, "c_script")
  /\ Raise(j, <<"[Errno 28] No space left on device">>)
  /\ UNCHANGED <<now, jobs, obj, jobs_lock, cb_log, env, fs, poll>>

\* open(script_path, 'w') raises: caught by convert_dicom_to_stl's handler.
CreateScriptError(j) ==
  /\ At(j, "c_script")
  /\ ConvertReturn(j, FALSE, <<"Conversion error: ", "[Errno 28] No space left on device">>)
  /\ UNCHANGED <<now, jobs, obj, jobs_lock, env, fs, poll>>

\* _run_slicer_script returns (success, message) to convert_dicom_to_stl.
RunReturn(j) ==
  /\ pc' = [pc EXCEPT ![j] = "c_ran"]
  /\ UNCHANGED <<upd, pre, cb_log>>

\* process = subprocess.Popen(cmd, ...): the tool starts on the script file
\* as it is now.
Launch(j) ==
  /\ At(j, "c_launch")
  /\ w' = [w EXCEPT ![j].proc = Some([script |-> scripts[w[j].script_path[1]],
                                      state |-> "running", returncode |-> 0,
                                      success_token |-> FALSE, series |-> ""])]
  /\ pc' = [pc EXCEPT ![j] = "c_wait"]
  /\ UNCHANGED <<now, jobs, obj, jobs_lock, upd, pre, cb_log, env, fs, poll>>

\* subprocess.Popen raises (no xvfb-run, no permission): caught by
\* _run_slicer_script's outer handler.
LaunchError(j) ==
  /\ At(j, "c_launch")
  /\ w' = [w EXCEPT ![j].run_result =
             Some(<<FALSE, <<"Error running Slicer script: ",
                             "[Errno 2] No such file or directory: 'xvfb-run'">>>>)]
  /\ RunReturn(j)
  /\ UNCHANGED <<now, jobs, obj, jobs_lock, env, fs, poll>>

\* The series the script may load: it imports the whole of dicom_dir into
\* the tool's DICOM database and takes series_list[0] of the first study of
\* the first patient the database returns; the script is given no series.
ScriptSeries(script) ==
  LET found == discover_dicom_files(upload_files)
  IN {SeriesOf(found[i]) : i \in 1..Len(found)}

ToolWrites(script, out, err) ==
  /\ outputs' = IF out = None THEN outputs
                ELSE WriteFile(outputs, script.output_stl, out[1])
  /\ markers' = IF err THEN WriteFile(markers, ScriptErrorFile(script), <<"boom">>)
                ELSE markers

\* The tool exits within the timeout: process.communicate returns.
ToolExit(j) ==
  /\ At(j, "c_wait")
  /\ \E o \in tool :
       /\ ToolWrites(w[j].proc[1].script, o.out, o.err)
       /\ \E series \in ScriptSeries(w[j].proc[1].script) :
            w' = [w EXCEPT ![j].proc = Some([w[j].proc[1] EXCEPT
                                               !.state = "exited",
                                               !.returncode = o.returncode,
                                               !.success_token = o.success_token,
                                               !.series = series])]
  /\ pc' = [pc EXCEPT ![j] = "c_exited"]
  /\ UNCHANGED <<now, jobs, obj, jobs_lock, upd, pre, cb_log, env, scripts, poll>>

\* _run_slicer_script after communicate: the outcome read from the return
\* code, stdout and the marker file beside the script.
RunOutcome(returncode, success_token, error_marker) ==
  IF returncode = 0 \/ success_token
    THEN <<TRUE, <<"Conversion completed successfully">>>>
  ELSE IF Exists(markers, error_marker)
    THEN <<FALSE, <<"Slicer error: ">> \o markers[error_marker]>>
  ELSE <<FALSE, <<"Slicer script failed with code ", Str(returncode)>>>>

RunInterpret(j) ==
  /\ At(j, "c_exited")
  /\ w' = [w EXCEPT ![j].run_result =
             Some(RunOutcome(w[j].proc[1].returncode, w[j].proc[1].success_token,
                             ErrorMarker(w[j].script_path[1])))]
  /\ RunReturn(j)
  /\ UNCHANGED <<now, jobs, obj, jobs_lock, env, fs, poll>>

\* A wait that is not cut off: when the timeout expires the process is killed
\* and waited for again.
ToolTimeoutWaiting(j) ==
  /\ At(j, "c_wait")
  /\ w' = [w EXCEPT ![j].proc = Some([w[j].proc[1] EXCEPT !.state = "killed"])]
  /\ UNCHANGED <<now, jobs, obj, jobs_lock, pc, upd, pre, cb_log, env, fs, poll>>

\* ToolTimeout that kills the tool and then trusts what it printed so far.
ToolTimeoutTrusting(j) ==
  /\ At(j, "c_wait")
  /\ \E o \in tool :
       /\ ToolWrites(w[j].proc[1].script, o.out, FALSE)
       /\ w' = [w EXCEPT ![j].proc = Some([w[j].proc[1] EXCEPT
                                             !.state = "killed",
                                             !.returncode = -9,
                                             !.success_token = o.success_token]),
                         ![j].run_result =
                            Some(IF o.success_token
                                   THEN <<TRUE, <<"Conversion completed successfully">>>>
                                   ELSE <<FALSE, <<"Conversion timed out after ",
                                                   Str(timeout), " seconds">>>>)]
  /\ RunReturn(j)
  /\ UNCHANGED <<now, jobs, obj, jobs_lock, env, scripts, poll>>

\* except subprocess.TimeoutExpired: process.kill(); the tool may have
\* written output, and printed, before it was killed.
ToolTimeout(j) ==
  /\ At(j, "c_wait")
  /\ \E o \in tool :
       /\ ToolWrites(w[j].proc[1].script, o.out, FALSE)
       /\ w' = [w EXCEPT ![j].proc = Some([w[j].proc[1] EXCEPT
                                             !.state = "killed",
                                             !.returncode = -9,
                                             !.success_token = o.success_token]),
                         ![j].run_result =
                            Some(<<FALSE, <<"Conversion timed out after ", Str(timeout),
                                            " seconds">>>>)]
  /\ RunReturn(j)
  /\ UNCHANGED <<now, jobs, obj, jobs_lock, env, scripts, poll>>

\* AfterRun that reports the 90% checkpoint whatever the run returned.
AfterRunAlways(j) ==
  /\ At(j, "c_ran")
  /\ progress_callback(j, 90, <<"Conversion complete, finalizing...">>, "c_verify")
  /\ UNCHANGED w
  /\ UNCHANGED <<now, jobs, obj, jobs_lock, env, fs, poll>>

\* success, message = self._run_slicer_script(...); if success:
\* progress_callback(90, ...) else: return False, message
AfterRun(j) ==
  /\ At(j, "c_ran")
  /\ IF w[j].run_result[1][1]
       THEN /\ progress_callback(j, 90, <<"Conversion complete, finalizing...">>, "c_verify")
            /\ UNCHANGED w
       ELSE ConvertReturn(j, FALSE, w[j].run_result[1][2])
  /\ UNCHANGED <<now, jobs, obj, jobs_lock, env, fs, poll>>

\* Verify without the check that the output file exists.
VerifyNoCheck(j) ==
  /\ At(j, "c_verify")
  /\ w' = [w EXCEPT ![j].file_size =
             Some(IF Exists(outputs, OutputFile(j)) THEN outputs[OutputFile(j)] ELSE 0)]
  /\ progress_callback(j, 100, <<"Conversion successful">>, "c_return")
  /\ UNCHANGED <<now, jobs, obj, jobs_lock, env, fs, poll>>

\* if not output_stl.exists(): return False, ...; file_size = ...st_size;
\* progress_callback(100, "Conversion successful")
Verify(j) ==
  /\ At(j, "c_verify")
  /\ IF ~Exists(outputs, OutputFile(j))
       THEN ConvertReturn(j, FALSE, <<"Conversion completed but STL file not found">>)
       ELSE /\ w' = [w EXCEPT ![j].file_size = Some(outputs[OutputFile(j)])]
            /\ progress_callback(j, 100, <<"Conversion successful">>, "c_return")
  /\ UNCHANGED <<now, jobs, obj, jobs_lock, env, fs, poll>>

\* return True, f"Successfully created STL file ({file_size} bytes)"
ConvertSuccess(j) ==
  /\ At(j, "c_return")
  /\ ConvertReturn(j, TRUE, <<"Successfully created STL file (", Str(w[j].file_size[1]),
                              " bytes)">>)
  /\ UNCHANGED <<now, jobs, obj, jobs_lock, env, fs, poll>>

\* -------------------------------------- process_conversion_job, continued
\* Converted that raises a fixed text, dropping the orchestrator's message.
ConvertedGeneric(j) ==
  /\ At(j, "converted")
  /\ LET success == w[j].conv_result[1][1]
     IN IF ~success
          THEN Raise(j, <<"Conversion failed">>)
        ELSE IF ~Exists(outputs, OutputFile(j))
          THEN Raise(j, <<"STL file was not created">>)
        ELSE /\ CallUpdate(j, [status |-> "completed", progress |-> 100,
                               message |-> <<"Conversion completed successfully (",
                                             Str(outputs[OutputFile(j)]), " bytes)">>,
                               stl_file |-> OutputName(j)], "finish")
             /\ UNCHANGED w
  /\ UNCHANGED <<now, jobs, obj, jobs_lock, cb_log, env, fs, poll>>

\* if not success: raise ValueError(f"Conversion failed: {message}");
\* if not output_file.exists(): raise; file_size = ...;
\* job.update(status='completed', progress=100, message=..., stl_file=output_file.name)
Converted(j) ==
  /\ At(j, "converted")
  /\ LET success == w[j].conv_result[1][1]
         message == w[j].conv_result[1][2]
     IN IF ~success
          THEN Raise(j, <<"Conversion failed: ">> \o message)
        ELSE IF ~Exists(outputs, OutputFile(j))
          THEN Raise(j, <<"STL file was not created">>)
        ELSE /\ CallUpdate(j, [status |-> "completed", progress |-> 100,
                               message |-> <<"Conversion completed successfully (",
                                             Str(outputs[OutputFile(j)]), " bytes)">>,
                               stl_file |-> OutputName(j)], "finish")
             /\ UNCHANGED w
  /\ UNCHANGED <<now, jobs, obj, jobs_lock, cb_log, env, fs, poll>>

\* The worker function returns: its thread ends and its locals are gone.
Finish(j) ==
  /\ At(j, "finish")
  /\ pc' = [pc EXCEPT ![j] = "done"]
  /\ w' = [w EXCEPT ![j] = Locals]
  /\ UNCHANGED <<now, jobs, obj, jobs_lock, upd, pre, cb_log, env, fs, poll>>

\* except Exception as e: error_msg = str(e); with jobs_lock:
ExceptAcquire(j) ==
  /\ At(j, "except")
  /\ jobs_lock = Free
  /\ jobs_lock' = Holder("worker", j)
  /\ pc' = [pc EXCEPT ![j] = "except_locked"]
  /\ UNCHANGED <<now, jobs, obj, upd, pre, w, cb_log, env, fs, poll>>

\* ExceptUpdate that marks the job failed without recording the message.
ExceptUpdateNoError(j) ==
  /\ pc[j] = "except_locked"
  /\ IF j \in jobs
       THEN LET after == AssignAll(obj[j],
                                   update([status |-> "failed",
                                           message |-> <<"Conversion failed">>]), now)
            IN /\ obj' = [obj EXCEPT ![j] = after]
               /\ pre' = [pre EXCEPT ![j] = after]
       ELSE UNCHANGED <<obj, pre>>
  /\ jobs_lock' = Free
  /\ pc' = [pc EXCEPT ![j] = "done"]
  /\ w' = [w EXCEPT ![j] = Locals]
  /\ UNCHANGED <<now, jobs, upd, cb_log, env, fs, poll>>

\* A failure handler that leaves its section without giving the lock back.
ExceptUpdateHolding(j) ==
  /\ pc[j] = "except_locked"
  /\ pc' = [pc EXCEPT ![j] = "done"]
  /\ w' = [w EXCEPT ![j] = Locals]
  /\ UNCHANGED <<now, jobs, obj, jobs_lock, upd, pre, cb_log, env, fs, poll>>

\* if job_id in jobs: jobs[job_id].update(status='failed',
\* message='Conversion failed', error=error_msg); the lock is released and
\* the worker function returns.
ExceptUpdate(j) ==
  /\ pc[j] = "except_locked"
  /\ IF j \in jobs
       THEN LET after == AssignAll(obj[j],
                                   update([status |-> "failed",
                                           message |-> <<"Conversion failed">>,
                                           error |-> w[j].exc[1]]), now)
            IN /\ obj' = [obj EXCEPT ![j] = after]
               /\ pre' = [pre EXCEPT ![j] = after]
       ELSE UNCHANGED <<obj, pre>>
  /\ jobs_lock' = Free
  /\ pc' = [pc EXCEPT ![j] = "done"]
  /\ w' = [w EXCEPT ![j] = Locals]
  /\ UNCHANGED <<now, jobs, upd, cb_log, env, fs, poll>>

\* --------------------------------------------------------- get_job_status
\* asdict(job): a copy of the object's fields as they are now.
asdict(job) == job

\* with jobs_lock:
PollAcquire(j) ==
  /\ poll.pc = "idle"
  /\ jobs_lock = Free
  /\ jobs_lock' = Holder("poll", j)
  /\ poll' = [pc |-> "locked", job |-> j]
  /\ UNCHANGED <<now, jobs, obj, pc, upd, pre, w, cb_log, env, fs>>

\* if job_id not in jobs: return 404; return jsonify(asdict(jobs[job_id])), 200
get_job_status(j) ==
  IF j \notin jobs THEN [code |-> 404, job |-> None]
  ELSE [code |-> 200, job |-> Some(asdict(obj[j]))]

\* The handler reads the registry and the job object, the lock is released
\* and the response get_job_status(poll.job) is sent.
PollRead ==
  /\ poll.pc = "locked"
  /\ jobs_lock' = Free
  /\ poll' = PollIdle
  /\ UNCHANGED <<now, jobs, obj, pc, upd, pre, w, cb_log, env, fs>>

\* ---------------------------------------------------------------- list_jobs
\* with jobs_lock: of list_jobs; the handler is the polling client's.
ListAcquire ==
  /\ poll.pc = "idle"
  /\ jobs_lock = Free
  /\ jobs_lock' = Holder("list", 0)
  /\ poll' = [pc |-> "listing", job |-> 0]
  /\ UNCHANGED <<now, jobs, obj, pc, upd, pre, w, cb_log, env, fs>>

\* job_list = [asdict(job) for job in jobs.values()], by registry key
list_jobs == [j \in jobs |-> asdict(obj[j])]

\* A list that takes the jobs out of the registry as it copies them.
ListReadPopping ==
  /\ poll.pc = "listing"
  /\ jobs' = {}
  /\ jobs_lock' = Free
  /\ poll' = PollIdle
  /\ UNCHANGED <<now, obj, pc, upd, pre, w, cb_log, env, fs>>

\* The handler copies every job object, the lock is released and the
\* response list_jobs is sent.
ListRead ==
  /\ poll.pc = "listing"
  /\ jobs_lock' = Free
  /\ poll' = PollIdle
  /\ UNCHANGED <<now, jobs, obj, pc, upd, pre, w, cb_log, env, fs>>

\* ------------------------------------------- a DICOMProcessor used directly
\* processor.discover_dicom_files()
DpDiscover ==
  /\ dp.pc = "new"
  /\ dp' = [dp EXCEPT !.pc = "discovered",
                      !.processor.dicom_files = discover_dicom_files(upload_files)]
  /\ UNCHANGED <<now, jobs, obj, jobs_lock, pc, upd, pre, w, cb_log,
                 upload_files, slicer_exists, tool, fs, poll, req, cb_raises>>

\* processor.organize_by_series()
DpOrganize ==
  /\ dp.pc = "discovered"
  /\ dp' = [dp EXCEPT !.pc = "organized",
                      !.processor.series_data = organize_by_series(dp.processor.dicom_files)]
  /\ UNCHANGED <<now, jobs, obj, jobs_lock, pc, upd, pre, w, cb_log,
                 upload_files, slicer_exists, tool, fs, poll, req, cb_raises>>

\* The series identities a caller asks about: those of the files, and one
\* that no file has.
SeriesIds == {"1.2.3", "1.2.4", "unknown", "9.9.9"}

\* The min_slices a caller passes: small ones, and the default.
MinSlices == 1..(MaxFiles + 1) \cup {min_slices}

\* processor.validate_series(series_uid, min_slices)
DpValidate ==
  /\ dp.pc = "organized"
  /\ \E series_uid \in SeriesIds, m \in MinSlices :
       dp' = [dp EXCEPT !.pc = "validated", !.call = <<series_uid, m>>,
                        !.ret = validate_series(dp.processor.series_data, series_uid, m)]
  /\ UNCHANGED <<now, jobs, obj, jobs_lock, pc, upd, pre, w, cb_log,
                 upload_files, slicer_exists, tool, fs, poll, req, cb_raises>>

\* processor.extract_metadata(series_uid); "" stands for a call without
\* series_uid, as process_dicom_directory makes.
DpExtract ==
  /\ dp.pc = "organized"
  /\ \E series_uid \in SeriesIds \cup {""} :
       LET metadata == extract_metadata(dp.processor, series_uid)
       IN dp' = [dp EXCEPT !.pc = "extracted", !.call = <<series_uid>>,
                           !.ret = metadata,
                           !.processor.metadata = MetadataAfter(dp.processor, metadata)]
  /\ UNCHANGED <<now, jobs, obj, jobs_lock, pc, upd, pre, w, cb_log,
                 upload_files, slicer_exists, tool, fs, poll, req, cb_raises>>

\* load_series_as_volume: files = self.series_data[series_uid];
\* sorted_files = self._sort_dicom_files(files)
DpSort ==
  /\ dp.pc = "organized"
  /\ \E series_uid \in SeriesIds :
       /\ HasSeries(dp.processor.series_data, series_uid)
       /\ dp' = [dp EXCEPT !.pc = "sorted", !.call = <<series_uid>>,
                           !.ret = sort_dicom_files(
                                     SeriesFiles(dp.processor.series_data, series_uid))]
  /\ UNCHANGED <<now, jobs, obj, jobs_lock, pc, upd, pre, w, cb_log,
                 upload_files, slicer_exists, tool, fs, poll, req, cb_raises>>

\* ------------------------------------------------------------ the system
Submit(j) ==
  \/ SubmitCreate(j) \/ SubmitAcquire(j) \/ SubmitInsert(j) \/ SubmitStart(j)

Worker(j) ==
  \/ UpdateStep(j) \/ WorkerAcquire(j) \/ WorkerLookup(j)
  \/ Scan(j) \/ Discover(j) \/ Organize(j) \/ Select(j) \/ Validate(j)
  \/ InitSlicer(j) \/ Converted(j) \/ Finish(j)
  \/ ExceptAcquire(j) \/ ExceptUpdate(j)

Converter(j) ==
  \/ ConvertBegin(j) \/ CreateScript(j) \/ CreateScriptError(j)
  \/ Launch(j) \/ LaunchError(j) \/ ToolExit(j) \/ RunInterpret(j)
  \/ ToolTimeout(j) \/ AfterRun(j) \/ Verify(j) \/ ConvertSuccess(j)

Poll == (\E j \in DOMAIN pc : PollAcquire(j)) \/ PollRead

\* The steps of the server: the clock, the requests and the workers.
NextJobs ==
  \/ Tick
  \/ \E j \in DOMAIN pc : Submit(j) \/ Worker(j) \/ Converter(j)
  \/ Poll

\* The server in an environment where the tool's executable comes and goes.
Next == NextJobs \/ SlicerChange

Spec == Init /\ [][Next]_vars

\* Several jobs; the executable is there or not for the whole behaviour.
SpecJobs == InitJobs /\ [][NextJobs]_vars

\* The server when convert_dicom_to_stl is given a callback that may raise.
NextConvert == NextJobs \/ \E j \in DOMAIN pc : CallbackRaises(j)

\* The callbacks tried: one that never raises, and one raising at each
\* checkpoint.
Callbacks == {{}, {10}, {20}, {90}, {100}}

InitConvert ==
  InitOf({1}, {Uniform(min_slices, "1.2.3", 256, 256)}, {TRUE}, ToolOutcomes, Callbacks)

SpecConvert == InitConvert /\ [][NextConvert]_vars

\* The jobs of SpecFair.
FairIds == {1}

\* The steps a thread takes by itself once it is scheduled: the rest of the
\* submit handler after the job was created, the worker's pipeline (Select is
\* in Fairness) and the converter's code. The tool's exit is the tool's step, not the thread's;
\* process.communicate(timeout=timeout) returns by itself (ToolTimeout).
Running(j) ==
  \/ SubmitInsert(j) \/ SubmitStart(j)
  \/ UpdateStep(j) \/ WorkerLookup(j)
  \/ Scan(j) \/ Discover(j) \/ Organize(j) \/ Validate(j)
  \/ InitSlicer(j) \/ Converted(j) \/ Finish(j) \/ ExceptUpdate(j)
  \/ ConvertBegin(j) \/ CreateScript(j) \/ CreateScriptError(j)
  \/ Launch(j) \/ LaunchError(j) \/ RunInterpret(j)
  \/ ToolTimeout(j) \/ AfterRun(j) \/ Verify(j) \/ ConvertSuccess(j)

\* `with jobs_lock:` of a thread of job j.
Acquire(j) == SubmitAcquire(j) \/ WorkerAcquire(j) \/ ExceptAcquire(j)

\* Threads are scheduled fairly: a thread that can run does run, a thread
\* blocked in `with jobs_lock:` gets the lock if it is free again and again,
\* and the polling handler leaves its lock section.
\* Select(j) can be taken exactly when the worker is at "select" with no
\* update in progress, and it leaves that position: its weak fairness is
\* stated by the position, which spares computing the series again.
Fairness ==
  /\ \A j \in FairIds :
       /\ WF_vars(Running(j))
       /\ []<>~At(j, "select")
       /\ SF_vars(Acquire(j))
  /\ WF_vars(PollRead)

\* A job of either upload of SpecJobs, its worker competing for the lock
\* with the polling handler; the tool succeeds or fails when it exits at all.
InitFair == InitOf(FairIds, JobsUploads, BOOLEAN, JobsToolOutcomes, NeverRaises)

\* The server under fair scheduling of its threads.
SpecFair == InitFair /\ [][NextJobs]_vars /\ Fairness

\* An exception whose text is empty (str(MemoryError()) is "") is raised in
\* the worker while the upload directory is walked; `except Exception as e`
\* of process_conversion_job catches it and error_msg = str(e) is "".
RaiseEmpty(j) ==
  /\ At(j, "discover")
  /\ Raise(j, <<>>)
  /\ UNCHANGED <<now, jobs, obj, jobs_lock, cb_log, env, fs, poll>>

\* The server when the worker may also fail with an error without text.
NextErrors == NextJobs \/ \E j \in DOMAIN pc : RaiseEmpty(j)

InitErrors == InitOf({1}, JobsUploads, BOOLEAN, ToolOutcomes, NeverRaises)

SpecErrors == InitErrors /\ [][NextErrors]_vars

\* The server when its client also lists the jobs.
NextRegistry == NextJobs \/ ListAcquire \/ ListRead

\* Two jobs of a well-formed upload; the tool succeeds when it exits at all.
InitRegistry ==
  InitOf(JobIds, {Uniform(min_slices, "1.2.3", 256, 256)}, {TRUE},
         {Outcome(0, TRUE, Some(84), FALSE)}, NeverRaises)

SpecRegistry == InitRegistry /\ [][NextRegistry]_vars

\* The threads that use the registry lock, for jobs whose upload holds no
\* DICOM file: each worker goes through both of its lock sections, the
\* lookup and the failure handler, while requests are submitted, polled
\* and listed.
NextLock ==
  \/ \E j \in DOMAIN pc :
       \/ Submit(j)
       \/ UpdateStep(j) \/ WorkerAcquire(j) \/ WorkerLookup(j)
       \/ Scan(j) \/ Discover(j)
       \/ ExceptAcquire(j) \/ ExceptUpdate(j)
  \/ Poll \/ ListAcquire \/ ListRead

InitLock ==
  InitOf(JobIds, {<<File(1, FALSE, NoTag, 0, 0)>>}, {TRUE}, JobsToolOutcomes, NeverRaises)

\* Fair scheduling of the threads, as in Fairness, for every job and both
\* kinds of reading handler.
LockFairness ==
  /\ \A j \in JobIds : WF_vars(Running(j)) /\ SF_vars(Acquire(j))
  /\ WF_vars(PollRead) /\ WF_vars(ListRead)

SpecLock == InitLock /\ [][NextLock]_vars /\ LockFairness

\* The submit requests of every kind, and the start of the workers.
NextSubmit ==
  \E j \in DOMAIN pc :
    \/ SubmitAccept(j) \/ SubmitReject(j)
    \/ SubmitAcquire(j) \/ SubmitInsert(j) \/ SubmitStart(j)
    \/ WorkerAcquire(j) \/ WorkerLookup(j) \/ UpdateStep(j)

InitSubmit ==
  InitOf(JobIds, {Uniform(min_slices, "1.2.3", 256, 256)}, {TRUE}, JobsToolOutcomes,
         NeverRaises)

SpecSubmit == InitSubmit /\ [][NextSubmit]_vars

NextSeries == DpDiscover \/ DpOrganize \/ DpValidate \/ DpSort \/ DpExtract

SpecSeries == InitSeries /\ [][NextSeries]_vars

\* ------------------------------------------------------------ properties
Registered == DOMAIN obj

\* The tool run of job j has ended in the given way.
ToolEnded(j, state) == w[j].proc # None /\ w[j].proc[1].state = state

\* The error marker the generated script writes for job j's output.
OutputErrorFile(j) == OutputFile(j) \o <<".error">>

\* The labels at which convert_dicom_to_stl has been entered for the job.
InConvert ==
  {"c_script", "c_launch", "c_wait", "c_exited", "c_ran", "c_verify", "c_return",
   "converted"}

\* C1: a job's status changes only along pending -> processing ->
\* completed | failed; a completed or failed job never changes status again.
C1_StatusForward ==
  [][\A j \in Registered :
       obj'[j].status # obj[j].status =>
         <<obj[j].status, obj'[j].status>> \in
           {<<"pending", "processing">>, <<"processing", "completed">>,
            <<"processing", "failed">>}]_vars

C1_Witness ==
  \E j \in Registered : pc[j] = "done" /\ obj[j].status = "completed"

\* C2: the progress written to a job never decreases, except in the step
\* that makes the job failed.
C2_ProgressMonotone ==
  [][\A j \in Registered :
       obj'[j].progress < obj[j].progress =>
         obj'[j].status = "failed" /\ obj[j].status # "failed"]_vars

\* C3: whenever the polling handler holds the lock and reads a job, the
\* record it reads is the record as it was before the update call in
\* progress, or as it will be after that call.
C3_NoTornRead ==
  (poll.pc = "locked" /\ poll.job \in jobs) =>
    LET j    == poll.job
        snap == get_job_status(j).job[1]
    IN \/ snap = pre[j]
       \/ \E t \in now..MaxTime : snap = AssignAll(obj[j], upd[j], t)

\* C4: every series handed to the orchestrator has at least min_slices
\* members, all with the rows and columns of the first.
C4_ValidatedBeforeConvert ==
  \A j \in DOMAIN pc :
    pc[j] \in InConvert =>
      LET files == SeriesFiles(w[j].processor.series_data, w[j].series_uid)
      IN /\ Len(files) >= min_slices
         /\ \A i \in 1..Len(files) :
              files[i].rows = files[1].rows /\ files[i].cols = files[1].cols

\* C5: when the tool has ended and the error marker of the job's output
\* exists, convert reports failure with the marker's text as its message.
C5_ErrorMarkerOverrides ==
  \A j \in DOMAIN pc :
    (pc[j] = "converted" /\ ToolEnded(j, "exited")
       /\ Exists(markers, OutputErrorFile(j))) =>
      w[j].conv_result[1] = <<FALSE, markers[OutputErrorFile(j)]>>

\* C6: convert reports success exactly when (exit code 0 or SUCCESS on
\* stdout) and the output file exists with nonzero size and no error marker
\* exists.
C6_SuccessIff ==
  \A j \in DOMAIN pc :
    (pc[j] = "converted" /\ ToolEnded(j, "exited")) =>
      (w[j].conv_result[1][1] <=>
         /\ w[j].proc[1].returncode = 0 \/ w[j].proc[1].success_token
         /\ Exists(outputs, OutputFile(j))
         /\ outputs[OutputFile(j)] > 0
         /\ ~Exists(markers, OutputErrorFile(j)))

\* The case of C7: the tool exited with code 0 or printed SUCCESS, and the
\* job's output file is absent.
C7_Case(j) ==
  /\ ToolEnded(j, "exited")
  /\ w[j].proc[1].returncode = 0 \/ w[j].proc[1].success_token
  /\ ~Exists(outputs, OutputFile(j))

OutputMissing == <<"Conversion completed but STL file not found">>

\* C7: when the tool exits with code 0 or prints SUCCESS and the output
\* file is absent, convert reports the failure OutputMissing, the 100%
\* checkpoint is not reported, and the job ends failed with that message.
C7_OutputMissing ==
  /\ [](\A j \in DOMAIN pc :
          C7_Case(j) =>
            /\ pc[j] \in {"c_exited", "c_ran", "c_verify", "converted", "except",
                          "except_locked"}
            /\ ~(\E i \in 1..Len(cb_log[j]) : cb_log[j][i] = 100)
            /\ pc[j] = "converted" => w[j].conv_result[1] = <<FALSE, OutputMissing>>)
  /\ [][\A j \in DOMAIN pc :
          (C7_Case(j) /\ pc'[j] = "done") =>
            /\ obj'[j].status = "failed"
            /\ obj'[j].error = Some(<<"Conversion failed: ">> \o OutputMissing)]_vars

C7_Witness ==
  \E j \in DOMAIN pc : C7_Case(j) /\ pc[j] = "except_locked"

\* C8: once convert has returned, the script file of the attempt no longer
\* exists.
C8_ScriptDeleted ==
  \A j \in DOMAIN pc :
    (pc[j] = "converted" /\ w[j].script_path # None) =>
      ~Exists(scripts, w[j].script_path[1])

\* C9: two attempts never have the same script file name.
C9_DistinctScripts ==
  \A j, k \in DOMAIN pc :
    (j # k /\ w[j].script_path # None /\ w[k].script_path # None) =>
      w[j].script_path # w[k].script_path

TimedOut == <<"Conversion timed out after ", Str(timeout), " seconds">>

\* C10: when the timeout expires the tool is killed, convert reports the
\* timed-out failure whatever output or SUCCESS token exists by then, and
\* the job ends failed with that message.
C10_Timeout ==
  /\ [](\A j \in DOMAIN pc :
          ToolEnded(j, "killed") =>
            /\ pc[j] \in {"c_ran", "converted", "except", "except_locked"}
            /\ w[j].run_result[1] = <<FALSE, TimedOut>>
            /\ pc[j] = "converted" => w[j].conv_result[1] = <<FALSE, TimedOut>>)
  /\ [][\A j \in DOMAIN pc :
          (ToolEnded(j, "killed") /\ pc'[j] = "done") =>
            /\ obj'[j].status = "failed"
            /\ obj'[j].error = Some(<<"Conversion failed: ">> \o TimedOut)]_vars

C10_Witness ==
  \E j \in DOMAIN pc :
    /\ ToolEnded(j, "killed") /\ pc[j] = "except_locked"
    /\ Exists(outputs, OutputFile(j)) /\ outputs[OutputFile(j)] > 0
    /\ w[j].proc[1].success_token

\* The labels of the except clause of process_conversion_job, and after it.
Handling == {"except", "except_locked", "done"}

ConvertFailed(j) == w[j].conv_result # None /\ ~w[j].conv_result[1][1]

\* The message of that failure.
ConvertMessage(j) == w[j].conv_result[1][2]

\* C12 as stated: when the orchestrator returns a failure, the job ends
\* failed and its error field is the orchestrator's message itself.
C12_ErrorIsMessage ==
  [][\A j \in DOMAIN pc :
       (ConvertFailed(j) /\ pc[j] = "except_locked" /\ pc'[j] = "done") =>
         /\ obj'[j].status = "failed"
         /\ obj'[j].error = Some(ConvertMessage(j))]_vars

\* C12 amended: when the orchestrator returns a failure, the pipeline
\* raises at once, and the job ends failed with an error field made of
\* "Conversion failed: " followed by the orchestrator's message in full.
C12_ErrorWrapsMessage ==
  /\ [](\A j \in DOMAIN pc :
          (ConvertFailed(j) /\ pc[j] # "converted") =>
            /\ pc[j] \in {"except", "except_locked"}
            /\ w[j].exc = Some(<<"Conversion failed: ">> \o ConvertMessage(j)))
  /\ [][\A j \in DOMAIN pc :
          (ConvertFailed(j) /\ pc[j] = "except_locked" /\ pc'[j] = "done") =>
            /\ obj'[j].status = "failed"
            /\ obj'[j].error = Some(<<"Conversion failed: ">> \o ConvertMessage(j))]_vars

C12_Witness ==
  \E j \in DOMAIN pc :
    /\ pc[j] = "except_locked"
    /\ w[j].conv_result = Some(<<FALSE, <<"Slicer script failed with code ", "1">>>>)

\* The upload holds one series of at least min_slices slices of one size.
ValidUpload ==
  LET found == discover_dicom_files(upload_files)
      d     == organize_by_series(found)
  IN /\ Len(found) = Len(upload_files)
     /\ Len(d.keys) = 1
     /\ validate_series(d, d.keys[1], min_slices)[1]

\* The case of C13 for job j: a valid upload, the tool present, and an
\* orchestrator run that reported success with the output file on disk.
C13_Case(j) ==
  /\ ValidUpload
  /\ slicer_exists
  /\ \E i \in 1..Len(cb_log[j]) : cb_log[j][i] = 100
  /\ Exists(outputs, OutputFile(j))

\* C13: a job is created pending, becomes processing only from pending and
\* completed only from processing; and in the case of C13 the worker goes on
\* to mark the job completed, so that when the worker has ended the job is
\* completed with progress 100, its own output file as result and no error.
C13_EndToEnd ==
  /\ [](\A j \in DOMAIN pc :
          C13_Case(j) =>
            /\ pc[j] \in {"c_return", "converted", "finish", "done"}
            /\ pc[j] = "done" =>
                  /\ obj[j].status = "completed"
                  /\ obj[j].progress = 100
                  /\ obj[j].stl_file = Some(OutputName(j))
                  /\ obj[j].error = None)
  /\ [][\A j \in DOMAIN pc :
          /\ (j \notin Registered /\ j \in DOMAIN obj') => obj'[j].status = "pending"
          /\ (j \in Registered /\ obj'[j].status # obj[j].status) =>
                /\ obj'[j].status = "processing" => obj[j].status = "pending"
                /\ obj'[j].status = "completed" => obj[j].status = "processing"]_vars

C13_Witness ==
  \E j \in Registered :
    C13_Case(j) /\ pc[j] = "done" /\ obj[j].status = "completed"

\* The labels of start_conversion before thread.start().
Submitting == {"none", "submit", "submit_locked", "submit_start"}

\* start_conversion has started job j's worker and returned its id.
Returned(j) == pc[j] \notin Submitting

\* C14: a job is created with an id no other job has, pending, at progress
\* 0; its worker is started once, from the handler, when the job is already
\* in the registry and still pending at progress 0 (the handler did not wait
\* for the worker); so a returned id is always found by get_job_status, and
\* the worker always finds its job.
C14_RegisteredBeforeStart ==
  /\ [](\A j \in DOMAIN pc :
          /\ Returned(j) => j \in jobs /\ get_job_status(j).code = 200
          /\ pc[j] = "w_lookup" => j \in jobs)
  /\ [][\A j \in DOMAIN pc :
          /\ (j \notin Registered /\ j \in DOMAIN obj') =>
                /\ obj'[j].job_id \notin {obj[k].job_id : k \in Registered}
                /\ obj'[j].status = "pending" /\ obj'[j].progress = 0
          /\ pc'[j] = "w_start" => pc[j] \in {"submit_start", "w_start"}
          /\ (pc[j] = "submit_start" /\ pc'[j] = "w_start") =>
                /\ j \in jobs
                /\ obj'[j].status = "pending" /\ obj'[j].progress = 0
          /\ Returned(j) => Returned(j)']_vars

C14_Witness ==
  \E j, k \in DOMAIN pc :
    /\ j # k /\ Returned(k)
    /\ pc[j] = "w_start"
    /\ poll = [pc |-> "locked", job |-> j]
    /\ get_job_status(j).job[1].status = "pending"

\* Calls of update tried on every job record reached: the calls of the
\* registry scenario, the failure handler's call, and calls supplying 0 or
\* an empty string.
UpdateCalls ==
  << [status |-> "processing"],
     [progress |-> 50],
     [progress |-> 0],
     [status |-> "completed", progress |-> 100, message |-> <<"done">>,
      stl_file |-> <<"1", ".stl">>],
     [status |-> "failed", message |-> <<"Conversion failed">>, error |-> <<"boom">>],
     [status |-> "failed", message |-> <<"Conversion failed">>, error |-> <<>>],
     [message |-> <<>>] >>

\* The value a field holds once v has been assigned to it.
Stored(f, v) == IF f \in {"stl_file", "error"} THEN Some(v) ELSE v

\* C15: update sets every field supplied to it to the supplied value,
\* leaves every other field but updated_at as it was, and leaves updated_at
\* later than created_at.
C15_UpdateExact ==
  \A j \in Registered : \A i \in 1..Len(UpdateCalls) :
    LET before == obj[j]
        args   == UpdateCalls[i]
        after  == AssignAll(before, update(args), now)
    IN /\ \A f \in DOMAIN args : after[f] = Stored(f, args[f])
       /\ \A f \in (DOMAIN before \ DOMAIN args) \ {"updated_at"} :
            after[f] = before[f]
       /\ after.updated_at > after.created_at

\* The places (group, position) at which file f occurs in the groups of d.
Places(d, f) ==
  {<<g, k>> \in (1..Len(d.keys)) \X (1..MaxFiles + min_slices) :
     k <= Len(d.lists[g]) /\ d.lists[g][k] = f}

Usable(tag) == tag.has /\ tag.ok

\* The key of the fallback chain: the first usable one of instance number,
\* slice location and image position; 0 when none is usable.
ChainKey(f) ==
  IF Usable(f.inst) THEN f.inst.val
  ELSE IF Usable(f.loc) THEN f.loc.val
  ELSE IF Usable(f.ipp) THEN f.ipp.val
  ELSE 0

\* C17: sorting gives each file the key of the fallback chain (a file whose
\* instance number is present but unusable gets its slice location), so
\* the sorted list is in non-decreasing order of that key.
C17_FallbackChain ==
  dp.pc = "sorted" =>
    /\ \A i \in 1..Len(dp.ret) : sort_key(dp.ret[i]) = ChainKey(dp.ret[i])
    /\ \A i, k \in 1..Len(dp.ret) :
         i < k => ChainKey(dp.ret[i]) <= ChainKey(dp.ret[k])

\* The position of file f in the list s.
PositionIn(s, f) == CHOOSE i \in 1..Len(s) : s[i] = f

\* C18: the sorted list holds each file of the series exactly once and
\* nothing else, is in non-decreasing order of the keys, and keeps two files
\* of equal key in the order they had in the series.
C18_StableSort ==
  dp.pc = "sorted" =>
    LET files == SeriesFiles(dp.processor.series_data, dp.call[1])
        out   == dp.ret
    IN /\ Len(out) = Len(files)
       /\ \A i \in 1..Len(files) :
            Cardinality({k \in 1..Len(out) : out[k] = files[i]}) = 1
       /\ \A i, k \in 1..Len(out) :
            i < k => sort_key(out[i]) <= sort_key(out[k])
       /\ \A i, k \in 1..Len(files) :
            (i < k /\ sort_key(files[i]) = sort_key(files[k])) =>
              PositionIn(out, files[i]) < PositionIn(out, files[k])

C18_Witness ==
  /\ dp.pc = "sorted"
  /\ LET files == SeriesFiles(dp.processor.series_data, dp.call[1])
     IN /\ Len(files) = 3
        /\ sort_key(files[1]) = 2 /\ sort_key(files[2]) = 1 /\ sort_key(files[3]) = 1
        /\ dp.ret = <<files[2], files[3], files[1]>>

\* validate_series was called on a series that exists.
Validated == dp.pc = "validated" /\ HasSeries(dp.processor.series_data, dp.call[1])

\* The members of that series, and the min_slices of the call.
ValidatedFiles == SeriesFiles(dp.processor.series_data, dp.call[1])
ValidatedMin == dp.call[2]

InsufficientSlices(n, m) == <<"Insufficient slices: ", Str(n), " < ", Str(m)>>

\* C19: on an existing series validate returns the failure
\* InsufficientSlices exactly when the series has fewer than min_slices
\* members, whatever the geometry of the members is and whether or not it
\* can be read.
C19_InsufficientSlices ==
  Validated =>
    LET n == Len(ValidatedFiles)
    IN (dp.ret = <<FALSE, InsufficientSlices(n, ValidatedMin)>>) <=> (n < ValidatedMin)

C19_Witness ==
  /\ Validated
  /\ Len(ValidatedFiles) = min_slices - 1 /\ ValidatedMin = min_slices
  /\ dp.ret = <<FALSE, <<"Insufficient slices: ", "9", " < ", "10">>>>

\* Member i has readable rows and columns equal to the first member's.
SameAsFirst(files, i) ==
  /\ files[i].geom /\ files[1].geom
  /\ files[i].rows = files[1].rows /\ files[i].cols = files[1].cols

\* Member i has readable rows and columns that differ from the first's.
DiffersFromFirst(files, i) ==
  /\ files[i].geom /\ files[1].geom
  /\ files[i].rows # files[1].rows \/ files[i].cols # files[1].cols

InconsistentGeometry == <<FALSE, <<"Inconsistent image dimensions">>>>

\* C20 as stated: on a series of at least min_slices members validate
\* returns ok exactly when every member has the rows and columns of the
\* first, and returns InconsistentGeometry when some member differs.
C20_GeometryIff ==
  (Validated /\ Len(ValidatedFiles) >= ValidatedMin) =>
    LET files == ValidatedFiles
    IN /\ dp.ret[1] <=> \A i \in 1..Len(files) : SameAsFirst(files, i)
       /\ (\E i \in 1..Len(files) : DiffersFromFirst(files, i)) =>
            dp.ret = InconsistentGeometry

\* C20 amended: on a series of at least min_slices members validate
\* returns ok exactly when every member has readable rows and columns equal
\* to the first's, and returns InconsistentGeometry exactly when some
\* member differs from the first and every member before it is readable
\* and equal to the first; otherwise the failure is a validation error.
C20_GeometryFirstStop ==
  (Validated /\ Len(ValidatedFiles) >= ValidatedMin) =>
    LET files == ValidatedFiles
        first_differs ==
          \E i \in 1..Len(files) :
            /\ DiffersFromFirst(files, i)
            /\ \A k \in 1..(i - 1) : SameAsFirst(files, k)
    IN /\ dp.ret[1] <=> \A i \in 1..Len(files) : SameAsFirst(files, i)
       /\ (dp.ret = InconsistentGeometry) <=> first_differs
       /\ (~dp.ret[1] /\ ~first_differs) =>
            dp.ret[2][1] = "Validation error: "

C20_Witness ==
  /\ Validated
  /\ Len(ValidatedFiles) = min_slices /\ ValidatedMin = min_slices
  /\ ValidatedFiles[min_slices].rows = 512
  /\ dp.ret = InconsistentGeometry

\* ---------------------------------------------------------------------------
\* extract_metadata

\* extract_metadata has returned.
Extracted == dp.pc = "extracted"

\* The files the returned call worked on, and its representative file.
ExtractedFiles ==
  IF dp.call[1] # "" /\ HasSeries(dp.processor.series_data, dp.call[1])
    THEN SeriesFiles(dp.processor.series_data, dp.call[1])
    ELSE dp.processor.dicom_files

Representative == ExtractedFiles[1]

\* The three optional numeric tags of a file with their metadata keys.
NumericTags(f) ==
  [pixel_spacing |-> f.spacing, slice_thickness |-> f.thickness,
   image_position |-> f.ipp]

NumericKeys == {"pixel_spacing", "slice_thickness", "image_position"}

Malformed(f) == {k \in NumericKeys : NumericTags(f)[k].has /\ ~NumericTags(f)[k].ok}

WellFormed(f) == {k \in NumericKeys : NumericTags(f)[k].has /\ NumericTags(f)[k].ok}

\* C21: when exactly one optional numeric field of the representative file
\* is present but malformed, the record returned by extract_metadata has
\* every descriptive field and the slice count, has the well-formed numeric
\* fields, and lacks only the malformed one.
C21_OmitsOnlyMalformed ==
  (/\ Extracted
   /\ ExtractedFiles # <<>>
   /\ Cardinality(Malformed(Representative)) = 1)
    => /\ DOMAIN dp.ret =
            DescKeys \cup {"number_of_slices"} \cup WellFormed(Representative)
       /\ dp.ret["number_of_slices"] = Len(ExtractedFiles)

\* A series of the processor was asked for.
ExtractedGroup ==
  /\ Extracted
  /\ dp.call[1] # ""
  /\ HasSeries(dp.processor.series_data, dp.call[1])

\* C22: for a non-empty group, the record returned by extract_metadata has
\* every descriptive field, each equal to the tag of the group's first
\* member or 'Unknown' when that member lacks the tag, and its slice count
\* is the number of members of the group.
C22_DescriptiveFromFirst ==
  ExtractedGroup
    => LET group == SeriesFiles(dp.processor.series_data, dp.call[1])
       IN /\ DescKeys \cup {"number_of_slices"} \subseteq DOMAIN dp.ret
          /\ \A k \in DescKeys :
               dp.ret[k] = (IF group[1].desc[k] = NoTag THEN "Unknown"
                            ELSE group[1].desc[k])
          /\ dp.ret["number_of_slices"] = Len(group)

\* ---------------------------------------------------------------------------
\* marker files

\* C23: when the tool has finished, the marker paths _run_slicer_script
\* inspects are the paths the script it ran writes, namely the job's output
\* path followed by .error and by .success.
C23_MarkerPathsAgree ==
  \A j \in DOMAIN pc :
    (pc[j] = "c_exited" /\ ToolEnded(j, "exited")) =>
      /\ ErrorMarker(w[j].script_path[1]) = ScriptErrorFile(w[j].proc[1].script)
      /\ ErrorMarker(w[j].script_path[1]) = OutputErrorFile(j)
      /\ SuccessMarker(w[j].script_path[1]) = ScriptSuccessFile(w[j].proc[1].script)

\* ---------------------------------------------------------------------------
\* progress during the conversion

\* C24: while convert_dicom_to_stl runs for a job, the progress stored in
\* the job is at least the 60 written just before the call and at most 100.
C24_RemainingRange ==
  \A j \in Registered :
    pc[j] \in InConvert => obj[j].progress \in 60..100

\* ---------------------------------------------------------------------------
\* the missing executable

\* The message of convert_dicom_to_stl when the executable is missing, and
\* the one process_conversion_job raises itself.
ToolNotFound == <<"3D Slicer not found at ", "SLICER_PATH">>

ToolNotFoundRaised ==
  <<"3D Slicer not found at ", "SLICER_PATH", ". ",
    "Please install 3D Slicer and set SLICER_PATH environment variable.">>

\* The errors of a job that ended on the missing executable.
ToolNotFoundErrors ==
  {Some(ToolNotFoundRaised), Some(<<"Conversion failed: ">> \o ToolNotFound)}

\* C25: when the executable does not exist at the moment the pipeline or the
\* orchestrator looks for it, that step decides ToolNotFound at once: it
\* writes no script, starts no subprocess and reports no progress; the
\* orchestrator returns the ToolNotFound failure or the pipeline raises it;
\* and a worker that ended on it leaves the job failed without the
\* orchestrator ever having reported a checkpoint.
C25_ToolNotFoundFirst ==
  /\ [][\A j \in DOMAIN pc :
          (~slicer_exists /\ pc[j] \in {"init_slicer", "convert"} /\ pc'[j] # pc[j]) =>
            /\ pc[j] = "init_slicer" =>
                 pc'[j] = "except" /\ w'[j].exc = Some(ToolNotFoundRaised)
            /\ pc[j] = "convert" =>
                 pc'[j] = "converted" /\ w'[j].conv_result = Some(<<FALSE, ToolNotFound>>)
            /\ cb_log'[j] = <<>>
            /\ w'[j].script_path = None /\ w'[j].proc = None
            /\ fs' = fs /\ obj' = obj]_vars
  /\ [](\A j \in DOMAIN pc :
          (pc[j] = "done" /\ obj[j].error \in ToolNotFoundErrors) =>
            obj[j].status = "failed" /\ cb_log[j] = <<>>)

\* The orchestrator found the executable gone and the job ended failed.
C25_Witness ==
  \E j \in DOMAIN pc :
    /\ pc[j] = "done"
    /\ obj[j].status = "failed"
    /\ obj[j].error = Some(<<"Conversion failed: ">> \o ToolNotFound)
    /\ cb_log[j] = <<>>

\* ---------------------------------------------------------------------------
\* the order of the pipeline

\* C26: the worker discovers, groups, selects (and extracts metadata),
\* validates and converts in that order: a worker that raised "No DICOM
\* files found" has grouped nothing, a worker that raised "No valid DICOM
\* series found" has neither selected a series nor called the orchestrator,
\* grouping is reached only with files discovered, validation only with the
\* first series selected, and the orchestrator only with files discovered,
\* the first series selected and that series valid.
C26_FixedOrder ==
  \A j \in DOMAIN pc :
    LET processor == w[j].processor
    IN /\ w[j].exc = Some(<<"No DICOM files found in upload">>) =>
            /\ processor.series_data.keys = <<>>
            /\ w[j].series_uid = "" /\ cb_log[j] = <<>>
       /\ w[j].exc = Some(<<"No valid DICOM series found">>) =>
            /\ w[j].series_uid = "" /\ w[j].conv_result = None /\ cb_log[j] = <<>>
       /\ pc[j] \in {"organize", "select"} => processor.dicom_files # <<>>
       /\ pc[j] = "validate" =>
            /\ processor.series_data.keys # <<>>
            /\ w[j].series_uid = processor.series_data.keys[1]
       /\ pc[j] \in {"convert"} \cup InConvert =>
            /\ processor.dicom_files # <<>>
            /\ processor.series_data.keys # <<>>
            /\ w[j].series_uid = processor.series_data.keys[1]
            /\ validate_series(processor.series_data, w[j].series_uid, min_slices)[1]

\* ---------------------------------------------------------------------------
\* the completed job

\* C27: whenever a job's status is completed, the job's output file exists,
\* its progress is 100, its stl_file is the name of its own output file and
\* its error is None.
C27_CompletedConsistent ==
  \A j \in Registered :
    obj[j].status = "completed" =>
      /\ Exists(outputs, OutputFile(j))
      /\ obj[j].progress = 100
      /\ obj[j].stl_file = Some(OutputName(j))
      /\ obj[j].error = None

\* ---------------------------------------------------------------------------
\* the writers of a job record

\* A job in a terminal status.
Terminal(j) == obj[j].status \in {"completed", "failed"}

\* C28: every step that changes the record of a registered job is a step of
\* that job's own worker (an assignment of its update call in progress, or
\* its failure handler), taken while no request handler and no other worker
\* moves; and the record of a job in a terminal status never changes again.
C28_SingleWriter ==
  [][\A j \in Registered :
       /\ obj'[j] # obj[j] =>
            /\ pc[j] \notin Submitting \cup {"done"}
            /\ upd'[j] # upd[j] \/ pc'[j] # pc[j]
            /\ poll' = poll
            /\ \A k \in DOMAIN pc \ {j} : pc'[k] = pc[k] /\ upd'[k] = upd[k]
       /\ Terminal(j) => obj'[j] = obj[j]]_vars

\* ---------------------------------------------------------------------------
\* the registry lock

\* The labels at which a worker is inside "with jobs_lock".
LockSections == {"w_lookup", "except_locked"}

\* C29: a worker holds the registry lock only inside its two short
\* sections, never while it scans, runs the orchestrator or waits for the
\* subprocess; so whoever holds the lock (a worker in such a section,
\* start_conversion inserting, get_job_status reading) is at the step that
\* releases it, a step whose only condition is being there, whatever the
\* subprocesses do.
C29_LockNotHeldInWork ==
  /\ \A j \in DOMAIN pc :
       pc[j] \notin LockSections => jobs_lock # Holder("worker", j)
  /\ jobs_lock.who = "submit" => pc[jobs_lock.job] = "submit_locked"
  /\ jobs_lock.who = "poll" => poll.pc = "locked"

\* A request inserts a job under the lock while another job's subprocess is
\* running.
C29_Witness ==
  \E j, k \in DOMAIN pc :
    /\ pc[j] = "c_wait" /\ ToolEnded(j, "running")
    /\ jobs_lock = Holder("submit", k)

\* ---------------------------------------------------------------------------
\* the selected series

\* C30: the series the worker selected, validates and converts is the
\* series of the first file discovered, and the series the tool has
\* converted when it exits is that same series.
C30_FirstWins ==
  \A j \in DOMAIN pc :
    /\ pc[j] \in {"validate", "init_slicer", "convert"} \cup InConvert =>
         w[j].series_uid = SeriesOf(discover_dicom_files(upload_files)[1])
    /\ (pc[j] \in InConvert /\ ToolEnded(j, "exited")) =>
         w[j].proc[1].series = w[j].series_uid

\* ---------------------------------------------------------------------------
\* the checkpoints of the orchestrator

\* The checkpoints of one attempt, in the order of the code.
Checkpoints == <<10, 20, 90, 100>>

\* Percentage p was reported through job j's callback.
Reported(j, p) == \E i \in 1..Len(cb_log[j]) : cb_log[j][i] = p

\* What was reported so far is an initial part of the checkpoints.
InOrder(j) ==
  /\ Len(cb_log[j]) <= Len(Checkpoints)
  /\ \A i \in 1..Len(cb_log[j]) : cb_log[j][i] = Checkpoints[i]

\* 10 is reported before the script is written and 20 before the tool is
\* started.
EarlyCheckpoints(j) ==
  /\ w[j].script_path # None => Reported(j, 10)
  /\ w[j].proc # None => Reported(j, 20)

\* C31 as stated: the checkpoints are reported in increasing order, 10
\* before the script and 20 before the launch, 90 and 100 only once the
\* output file has been found, and neither of them when convert fails.
C31_Checkpoints ==
  \A j \in DOMAIN pc :
    /\ InOrder(j)
    /\ EarlyCheckpoints(j)
    /\ (Reported(j, 90) \/ Reported(j, 100)) => Exists(outputs, OutputFile(j))
    /\ ConvertFailed(j) => ~Reported(j, 90) /\ ~Reported(j, 100)

\* C31 amended: the checkpoints are reported in increasing order, 10 before
\* the script and 20 before the launch; 90 is reported as soon as the tool
\* run is taken as successful, before the output file is looked for; 100
\* only once the output file has been found; a failed convert never
\* reported 100, and reported 90 only when it fails with OutputMissing.
C31_CheckpointsFinalizing ==
  \A j \in DOMAIN pc :
    /\ InOrder(j)
    /\ EarlyCheckpoints(j)
    /\ (Reported(j, 90) /\ w[j].run_result # None) => w[j].run_result[1][1]
    /\ Reported(j, 100) => Exists(outputs, OutputFile(j))
    /\ ConvertFailed(j) =>
         /\ ~Reported(j, 100)
         /\ Reported(j, 90) => ConvertMessage(j) = OutputMissing

\* One attempt reported all four checkpoints; another failed after 90.
C31_Witness ==
  \E j \in DOMAIN pc :
    /\ pc[j] = "converted"
    /\ ConvertFailed(j) /\ ConvertMessage(j) = OutputMissing
    /\ cb_log[j] = <<10, 20, 90>>

\* ---------------------------------------------------------------------------
\* validation as a check

\* The labels of a job in the order the code passes them.
Labels ==
  <<"none", "submit", "submit_locked", "submit_start", "w_start", "w_lookup",
    "scan", "discover", "organize", "select", "validate", "init_slicer",
    "convert", "c_script", "c_launch", "c_wait", "c_exited", "c_ran",
    "c_verify", "c_return", "converted", "finish", "except", "except_locked",
    "done", "rejected">>

Rank(label) == CHOOSE i \in 1..Len(Labels) : Labels[i] = label

\* C32: the step in which a worker evaluates validate_series leaves the
\* processor (its files, its series map with every group's members and
\* order), the selected series, the registry, every job record and the
\* files on disk as they were, whatever the check returns; and a worker
\* never goes back to an earlier point of the pipeline, so it evaluates the
\* check once.
C32_ValidatePure ==
  [][\A j \in DOMAIN pc :
       /\ Rank(pc'[j]) >= Rank(pc[j])
       /\ (pc[j] = "validate" /\ pc'[j] # "validate") =>
            /\ w'[j].processor = w[j].processor
            /\ w'[j].series_uid = w[j].series_uid
            /\ jobs' = jobs /\ obj' = obj
            /\ upload_files' = upload_files /\ fs' = fs]_vars

\* A worker has validated a series that is one slice short and still holds
\* the whole group.
C32_Witness ==
  \E j \in DOMAIN pc :
    /\ pc[j] = "init_slicer"
    /\ validate_series(w[j].processor.series_data, w[j].series_uid, min_slices)
         = <<FALSE, <<"Insufficient slices: ", Str(min_slices - 1), " < ", Str(min_slices)>>>>
    /\ Len(SeriesFiles(w[j].processor.series_data, w[j].series_uid)) = min_slices - 1

\* ---------------------------------------------------------------------------
\* the checks of start_conversion

\* Every registered job was created with a threshold within the configured
\* bounds and a decimation within 0..1.
CreatedInBounds ==
  \A j \in jobs :
    /\ req[j].args # None
    /\ THRESHOLD_MIN <= req[j].args[1].threshold
    /\ req[j].args[1].threshold <= THRESHOLD_MAX
    /\ 0 <= req[j].args[1].decimation /\ req[j].args[1].decimation <= 100

\* The step answers the request of slot j.
Answers(j) == req[j].request = None /\ req'[j].request # None

\* The step rejects the request of slot j: an error status, no job, no
\* worker, the registry and every record as before.
Rejects(j) ==
  /\ req'[j].code \in {400, 404, 500}
  /\ pc'[j] = "rejected"
  /\ jobs' = jobs /\ obj' = obj /\ w' = w /\ upd' = upd
  /\ \A k \in DOMAIN pc \ {j} : pc'[k] = pc[k]

\* A rejected request never gets a job or a worker.
RejectedStays ==
  \A j \in DOMAIN pc :
    pc[j] = "rejected" => j \notin jobs /\ j \notin DOMAIN obj /\ w[j] = Locals

\* The threshold or the decimation as sent lies outside the bounds.
SentOutOfBounds(r) ==
  \/ r.threshold.has /\ r.threshold.ok
       /\ (r.threshold.val < 10 * THRESHOLD_MIN \/ r.threshold.val > 10 * THRESHOLD_MAX)
  \/ r.decimation.has /\ r.decimation.ok
       /\ (r.decimation.val < 0 \/ r.decimation.val > 100)

\* The threshold as converted by int(), or the decimation, lies outside the
\* bounds, or one of them cannot be converted.
ParsedOutOfBounds(r) ==
  \/ r.threshold.has /\ ~r.threshold.ok
  \/ r.decimation.has /\ ~r.decimation.ok
  \/ ParsedThreshold(r) < THRESHOLD_MIN \/ ParsedThreshold(r) > THRESHOLD_MAX
  \/ ParsedDecimation(r) < 0 \/ ParsedDecimation(r) > 100

\* C33 as stated: every registered job was created within the bounds, and
\* a request whose threshold or decimation as sent is out of bounds, or
\* whose upload directory does not exist, is rejected.
C33_RejectsOutOfBounds ==
  /\ [](CreatedInBounds /\ RejectedStays)
  /\ [][\A j \in DOMAIN pc :
          (Answers(j) /\ (SentOutOfBounds(req'[j].request[1])
                            \/ ~req'[j].request[1].upload_exists)) => Rejects(j)]_vars

\* C33 amended: every registered job was created within the bounds, and a
\* request is rejected when its upload directory does not exist, when its
\* threshold or decimation cannot be converted, or when the threshold
\* truncated to an integer or the decimation is out of bounds.
C33_RejectsParsedOutOfBounds ==
  /\ [](CreatedInBounds /\ RejectedStays)
  /\ [][\A j \in DOMAIN pc :
          (Answers(j) /\ (ParsedOutOfBounds(req'[j].request[1])
                            \/ ~req'[j].request[1].upload_exists)) => Rejects(j)]_vars

\* With one job registered, a request with threshold 1001 was answered 400
\* and a job was created from a request with threshold 1000.9.
C33_Witness ==
  \E j, k \in DOMAIN pc :
    /\ j \in jobs /\ req[j].request[1].threshold = Value(10009)
    /\ req[j].args[1].threshold = THRESHOLD_MAX
    /\ pc[k] = "rejected" /\ req[k].code = 400
    /\ req[k].request[1].threshold = Value(10010)

\* ---------------------------------------------------------------------------
\* the failures inside convert

\* The labels inside convert_dicom_to_stl.
Orchestrator == {"convert"} \cup (InConvert \ {"converted"})

\* C34: a worker inside convert_dicom_to_stl leaves it only by its return,
\* with no exception of its own; when the callback raises at a checkpoint,
\* when the script cannot be written or when the tool cannot be started,
\* what is returned is a failure with a message, also when the tool had
\* already ended well.
C34_ConvertNeverRaises ==
  [][\A j \in DOMAIN pc :
       (pc[j] \in Orchestrator /\ pc'[j] # pc[j]) =>
         /\ pc'[j] \in Orchestrator \cup {"converted"}
         /\ w'[j].exc = None
         /\ pc'[j] = "converted" =>
              /\ w'[j].conv_result # None
              /\ w'[j].conv_result[1][1] \in BOOLEAN
              /\ w'[j].conv_result[1][2] # <<>>
         /\ (cb_log'[j] # cb_log[j] /\ cb_log'[j][Len(cb_log'[j])] \in cb_raises) =>
              pc'[j] = "converted" /\ ~w'[j].conv_result[1][1]
         /\ (pc[j] = "c_script" /\ w'[j].script_path = None) =>
              pc'[j] = "converted" /\ ~w'[j].conv_result[1][1]
         /\ (pc[j] = "c_launch" /\ w'[j].proc = None) =>
              w'[j].run_result # None /\ ~w'[j].run_result[1][1]
         /\ (pc[j] = "c_ran" /\ ~w[j].run_result[1][1]) =>
              /\ pc'[j] = "converted"
              /\ w'[j].conv_result = Some(<<FALSE, w[j].run_result[1][2]>>)]_vars

\* The callback raised at 100, after the tool had written the output file,
\* and convert returned a failure.
C34_Witness ==
  \E j \in DOMAIN pc :
    /\ pc[j] = "converted"
    /\ cb_raises = {100} /\ cb_log[j] = <<10, 20, 90, 100>>
    /\ Exists(outputs, OutputFile(j))
    /\ w[j].conv_result = CallbackFailure

\* C35: under fair scheduling every job put into the registry ends with its
\* worker finished and its status completed or failed, whether the tool
\* exits or not.
C35_Terminates ==
  \A j \in FairIds : (j \in jobs) ~> (pc[j] = "done" /\ Terminal(j))

\* A worker has finished after its tool run was cut off by the timeout, and
\* the job is failed.
C35_Witness ==
  \E j \in jobs :
    /\ pc[j] = "done"
    /\ obj[j].status = "failed"
    /\ obj[j].error = Some(<<"Conversion failed: ">> \o TimedOut)

\* ---------------------------------------------------------------------------
\* progress 100 and the status

\* C36: a job in the registry has progress 100 only if its status is
\* completed.
C36_FullOnlyCompleted ==
  \A j \in jobs : obj[j].progress = 100 => obj[j].status = "completed"

\* ---------------------------------------------------------------------------
\* the error field and the status

\* C37: a job in the registry has an error set exactly if its status is
\* failed.
C37_ErrorIffFailed ==
  \A j \in jobs : (obj[j].error # None) <=> (obj[j].status = "failed")

\* ---------------------------------------------------------------------------
\* the registry

\* C38: no step takes a job out of the registry or changes the identity of
\* a registered job, the identities of the registered jobs are pairwise
\* distinct, get_job_status answers 404 for an id that is not in the
\* registry (one never created among them), and the steps of
\* get_job_status and list_jobs leave the registry and every job record as
\* they were.
C38_RegistryGrows ==
  /\ [](/\ \A j, k \in jobs : j # k => obj[j].job_id # obj[k].job_id
        /\ \A j \in DOMAIN pc :
             j \notin jobs => get_job_status(j) = [code |-> 404, job |-> None]
        /\ DOMAIN list_jobs = jobs)
  /\ [][/\ jobs \subseteq jobs'
        /\ \A j \in jobs : j \in DOMAIN obj' /\ obj'[j].job_id = obj[j].job_id
        /\ poll' # poll => jobs' = jobs /\ obj' = obj]_vars

\* list_jobs is copying a registry of one terminal job, and the other job
\* has not been created: get_job_status answers 404 for it.
C38_Witness ==
  \E j, k \in DOMAIN pc :
    /\ jobs = {j} /\ Terminal(j)
    /\ pc[k] = "none" /\ get_job_status(k).code = 404
    /\ poll.pc = "listing"

\* ---------------------------------------------------------------------------
\* the registry lock cannot deadlock

\* A thread of job j is blocked in `with jobs_lock:`.
Waiting(j) == pc[j] = "submit" \/ pc[j] = "w_start" \/ At(j, "except")

\* A thread of job j is inside `with jobs_lock:`.
Holding(j) == pc[j] \in {"submit_locked", "w_lookup", "except_locked"}

====
